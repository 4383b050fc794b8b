--------------------------- MODULE CodeGenProofs ---------------------------
(***************************************************************************)
(* Proofs about CodeGen.                                                   *)
(*                                                                         *)
(* First the name tables: what reversing an object literal computes, for   *)
(* every literal, and what that gives for the two literals of              *)
(* unify_matter_mapping.js.  Then the generator: what a template has       *)
(* generated depends on the clusters it has visited and on nothing else,   *)
(* and from that each property of CodeGen that is about a rendered file.   *)
(***************************************************************************)
EXTENDS CodeGen, WellFoundedInduction, TLAPS

-----------------------------------------------------------------------------
(***************************************************************************)
(* Least and greatest numbers.  The least one comes from the library's     *)
(* fact that < is well-founded; the greatest one is n minus a least one.   *)
(***************************************************************************)
LEMMA LeastElement ==
  ASSUME NEW S \in SUBSET Nat, S # {}
  PROVE  \E x \in S : \A y \in S : x <= y
  <1>1. PICK x \in S : \A y \in S : ~(<<y, x>> \in OpToRel(<, Nat))
    BY NatLessThanWellFounded, WFMin
  <1>2. ASSUME NEW y \in S PROVE x <= y
    <2>1. ~(y < x)
      BY <1>1, <1>2 DEF OpToRel
    <2>2. QED
      BY <1>2, <2>1
  <1>3. QED
    BY <1>2

LEMMA GreatestElement ==
  ASSUME NEW n \in Nat, NEW S \in SUBSET (1 .. n), S # {}
  PROVE  \E x \in S : \A y \in S : x >= y
  <1> DEFINE T == {n - x : x \in S}
  <1>1. T \in SUBSET Nat /\ T # {}
    <2>1. \A x \in S : n - x \in Nat
      OBVIOUS
    <2>2. QED
      BY <2>1
  <1>2. PICK z \in T : \A y \in T : z <= y
    BY <1>1, LeastElement
  <1>3. PICK x \in S : z = n - x
    BY <1>2
  <1>4. ASSUME NEW y \in S PROVE x >= y
    <2>1. z <= n - y
      BY <1>2, <1>4
    <2>2. QED
      BY <1>3, <2>1
  <1>5. QED
    BY <1>4

-----------------------------------------------------------------------------
(***************************************************************************)
(* Object literals and their reversal.                                     *)
(***************************************************************************)
Literal(lit) == \E n \in Nat : DOMAIN lit = 1 .. n

\* The Matter names of key k.
Names(lit, second, k) ==
  {Value(lit, k)} \cup {second[i][2] : i \in {j \in DOMAIN second : second[j][1] = k}}

\* A key has its place at its first entry.
LEMMA PlaceIsFirst ==
  ASSUME NEW lit, Literal(lit), NEW k \in Keys(lit)
  PROVE  /\ Place(lit, k) \in DOMAIN lit /\ lit[Place(lit, k)][1] = k
         /\ \A i \in DOMAIN lit : lit[i][1] = k => Place(lit, k) <= i
  <1> DEFINE S == {i \in DOMAIN lit : lit[i][1] = k}
  <1>1. S \in SUBSET Nat /\ S # {}
    BY DEF Literal, Keys
  <1>2. \E x \in S : \A y \in S : x <= y
    BY <1>1, LeastElement
  <1>3. Min(S) \in S /\ \A y \in S : Min(S) <= y
    <2> HIDE DEF S
    <2> QED
      BY <1>2 DEF Min
  <1>4. Place(lit, k) = Min(S)
    BY DEF Place
  <1>5. QED
    BY <1>3, <1>4

\* A key has the value of its last entry.
LEMMA ValueIsLast ==
  ASSUME NEW lit, Literal(lit), NEW k \in Keys(lit)
  PROVE  \E i \in DOMAIN lit :
           /\ lit[i][1] = k /\ Value(lit, k) = lit[i][2]
           /\ \A j \in DOMAIN lit : lit[j][1] = k => j <= i
  <1> DEFINE S == {i \in DOMAIN lit : lit[i][1] = k}
  <1>1. PICK n \in Nat : DOMAIN lit = 1 .. n
    BY DEF Literal
  <1>2. S \in SUBSET (1 .. n) /\ S # {}
    BY <1>1 DEF Keys
  <1>3. \E x \in S : \A y \in S : x >= y
    BY <1>2, GreatestElement
  <1>4. Max(S) \in S /\ \A y \in S : Max(S) >= y
    <2> HIDE DEF S
    <2> QED
      BY <1>3 DEF Max
  <1>5. Value(lit, k) = lit[Max(S)][2]
    BY DEF Value
  <1>6. QED
    BY <1>1, <1>2, <1>4, <1>5

\* Two keys are never at the same place.
LEMMA PlacesDiffer ==
  ASSUME NEW lit, Literal(lit), NEW j \in Keys(lit), NEW k \in Keys(lit), Place(lit, j) = Place(lit, k)
  PROVE  j = k
  BY PlaceIsFirst

\* The reverse table has every name of every key.
LEMMA ReverseDomain ==
  ASSUME NEW lit, NEW second
  PROVE  \A m : m \in DOMAIN Reverse(lit, second) <=> \E k \in Keys(lit) : m \in Names(lit, second, k)
  <1>1. DOMAIN Reverse(lit, second) = UNION {Names(lit, second, k) : k \in Keys(lit)}
    BY DEF Reverse, Names
  <1>2. QED
    BY <1>1

\* For every literal and every list of second names: the reverse table gives a Matter
\* name to the last of the keys that have it (the loop that fills enums_matter_to_unify
\* overwrites), and to no other.
THEOREM ReverseTakesLast ==
  ASSUME NEW lit, NEW second, Literal(lit), NEW m \in DOMAIN Reverse(lit, second)
  PROVE  LET u == Reverse(lit, second)[m]
         IN  /\ u \in Keys(lit) /\ m \in Names(lit, second, u)
             /\ \A k \in Keys(lit) : m \in Names(lit, second, k) /\ k # u => Place(lit, k) < Place(lit, u)
  <1> DEFINE Having == {k \in Keys(lit) : m \in Names(lit, second, k)}
             Places == {Place(lit, k) : k \in Having}
             Wins(k) == k \in Having /\ \A j \in Having : Place(lit, j) <= Place(lit, k)
             u == Reverse(lit, second)[m]
  <1>1. PICK n \in Nat : DOMAIN lit = 1 .. n
    BY DEF Literal
  <1>2. Places \in SUBSET (1 .. n) /\ Places # {}
    BY <1>1, PlaceIsFirst, ReverseDomain
  <1>3. PICK p \in Places : \A q \in Places : p >= q
    BY <1>2, GreatestElement
  <1>4. PICK k \in Having : p = Place(lit, k)
    BY <1>3
  <1>5. Wins(k)
    BY <1>2, <1>3, <1>4
  <1>6. u = CHOOSE x \in Keys(lit) :
              /\ m \in Names(lit, second, x)
              /\ \A j \in Keys(lit) : m \in Names(lit, second, j) => Place(lit, j) <= Place(lit, x)
    BY DEF Reverse, Names
  <1>7. Wins(u)
    BY <1>5, <1>6
  <1>8. ASSUME NEW j \in Having, j # u PROVE Place(lit, j) < Place(lit, u)
    <2>1. Place(lit, j) <= Place(lit, u) /\ Place(lit, j) \in Nat /\ Place(lit, u) \in Nat
      BY <1>1, <1>7, <1>8, PlaceIsFirst
    <2>2. Place(lit, j) # Place(lit, u)
      BY <1>7, <1>8, PlacesDiffer
    <2>3. QED
      BY <2>1, <2>2
  <1>9. QED
    BY <1>7, <1>8

\* Entry e is the only one with key k, and the only one with name m.
OnlyAt(lit, e, k, m) ==
  /\ e \in DOMAIN lit /\ lit[e][1] = k /\ lit[e][2] = m
  /\ \A i \in DOMAIN lit : lit[i][1] = k \/ lit[i][2] = m => i = e

\* Such an entry is found both ways.
LEMMA OnlyEntry ==
  ASSUME NEW lit, NEW second, NEW e, NEW k, NEW m, Literal(lit), OnlyAt(lit, e, k, m),
         \A i \in DOMAIN second : second[i][2] # m
  PROVE  /\ k \in Keys(lit) /\ Value(lit, k) = m
         /\ m \in DOMAIN Reverse(lit, second) /\ Reverse(lit, second)[m] = k
  <1>1. k \in Keys(lit)
    BY DEF Keys, OnlyAt
  <1>2. Value(lit, k) = m
    BY <1>1, ValueIsLast DEF OnlyAt
  <1>3. ASSUME NEW j \in Keys(lit), m \in Names(lit, second, j) PROVE j = k
    <2>1. Value(lit, j) = m
      BY <1>3 DEF Names
    <2>2. QED
      BY <2>1, ValueIsLast DEF OnlyAt
  <1>4. m \in DOMAIN Reverse(lit, second)
    BY <1>1, <1>2, ReverseDomain DEF Names
  <1>5. QED
    BY <1>1, <1>2, <1>3, <1>4, ReverseTakesLast

-----------------------------------------------------------------------------
(***************************************************************************)
(* The two literals of unify_matter_mapping.js.                            *)
(***************************************************************************)
LEMMA EnumLiteral == DOMAIN enums_unify_to_matter = 1 .. 55 /\ Literal(enums_unify_to_matter)
  <1>1. DOMAIN enums_unify_to_matter = 1 .. 55
    BY DEF enums_unify_to_matter
  <1>2. QED
    BY <1>1 DEF Literal

LEMMA BitmapLiteral == DOMAIN bitmaps_unify_to_matter = 1 .. 38 /\ Literal(bitmaps_unify_to_matter)
  <1>1. DOMAIN bitmaps_unify_to_matter = 1 .. 38
    BY DEF bitmaps_unify_to_matter
  <1>2. QED
    BY <1>1 DEF Literal

LEMMA SecondNames ==
  /\ DOMAIN enums_second_name = {1}
  /\ enums_second_name[1][1] = "MoveStepMode" /\ enums_second_name[1][2] = "StepMode"
  BY DEF enums_second_name

\* Matter names that are in no entry.
Unlisted == {"SaturationMoveMode", "SaturationStepMode", "EffectIdentifierEnum", "::"}

LEMMA UnlistedNames == \A i \in 1 .. 55 : enums_unify_to_matter[i][2] \notin Unlisted
  BY SMTT(60) DEF enums_unify_to_matter, Unlisted

LEMMA UnlistedNotFound == \A m \in Unlisted : m \notin DOMAIN ReverseEnums
  <1> SUFFICES ASSUME NEW m \in Unlisted, NEW k \in Keys(enums_unify_to_matter),
                      m \in Names(enums_unify_to_matter, enums_second_name, k)
               PROVE  FALSE
    BY ReverseDomain DEF ReverseEnums
  <1>1. m # "StepMode"
    BY DEF Unlisted
  <1>2. m = Value(enums_unify_to_matter, k)
    BY <1>1, SecondNames DEF Names
  <1>3. QED
    BY <1>2, EnumLiteral, UnlistedNames, ValueIsLast

\* The entries that are looked up by name below.
Listed(k, m) ==
  /\ k \in Keys(enums_unify_to_matter) /\ Value(enums_unify_to_matter, k) = m
  /\ m \in DOMAIN ReverseEnums /\ ReverseEnums[m] = k

LEMMA ListedOnce ==
  ASSUME NEW e, NEW k, NEW m, OnlyAt(enums_unify_to_matter, e, k, m), m # "StepMode"
  PROVE  Listed(k, m)
  <1>1. \A i \in DOMAIN enums_second_name : enums_second_name[i][2] # m
    BY SecondNames
  <1>2. QED
    BY <1>1, EnumLiteral, OnlyEntry DEF Listed, ReverseEnums

LEMMA ListedMoveMode == Listed("CCMoveMode", "HueMoveMode")
  <1>1. enums_unify_to_matter[6][1] = "CCMoveMode" /\ enums_unify_to_matter[6][2] = "HueMoveMode"
    BY DEF enums_unify_to_matter
  <1>2. \A i \in 1 .. 55 :
          \/ enums_unify_to_matter[i][1] = "CCMoveMode"
          \/ enums_unify_to_matter[i][2] = "HueMoveMode"
          => i = 6
    BY SMTT(60) DEF enums_unify_to_matter
  <1>3. OnlyAt(enums_unify_to_matter, 6, "CCMoveMode", "HueMoveMode")
    BY <1>1, <1>2, EnumLiteral DEF OnlyAt
  <1>4. QED
    BY <1>3, ListedOnce

LEMMA ListedStepMode == Listed("CCStepMode", "HueStepMode")
  <1>1. enums_unify_to_matter[7][1] = "CCStepMode" /\ enums_unify_to_matter[7][2] = "HueStepMode"
    BY DEF enums_unify_to_matter
  <1>2. \A i \in 1 .. 55 :
          \/ enums_unify_to_matter[i][1] = "CCStepMode"
          \/ enums_unify_to_matter[i][2] = "HueStepMode"
          => i = 7
    BY SMTT(60) DEF enums_unify_to_matter
  <1>3. OnlyAt(enums_unify_to_matter, 7, "CCStepMode", "HueStepMode")
    BY <1>1, <1>2, EnumLiteral DEF OnlyAt
  <1>4. QED
    BY <1>3, ListedOnce

LEMMA ListedLevelMode == Listed("MoveStepMode", "MoveMode")
  <1>1. enums_unify_to_matter[30][1] = "MoveStepMode" /\ enums_unify_to_matter[30][2] = "MoveMode"
    BY DEF enums_unify_to_matter
  <1>2. \A i \in 1 .. 55 :
          \/ enums_unify_to_matter[i][1] = "MoveStepMode"
          \/ enums_unify_to_matter[i][2] = "MoveMode"
          => i = 30
    BY SMTT(60) DEF enums_unify_to_matter
  <1>3. OnlyAt(enums_unify_to_matter, 30, "MoveStepMode", "MoveMode")
    BY <1>1, <1>2, EnumLiteral DEF OnlyAt
  <1>4. QED
    BY <1>3, ListedOnce

LEMMA ListedEffect == Listed("OffWithEffectEffectIdentifier", "OnOff::EffectIdentifierEnum")
  <1>1. enums_unify_to_matter[32][1] = "OffWithEffectEffectIdentifier" /\ enums_unify_to_matter[32][2] = "OnOff::EffectIdentifierEnum"
    BY DEF enums_unify_to_matter
  <1>2. \A i \in 1 .. 55 :
          \/ enums_unify_to_matter[i][1] = "OffWithEffectEffectIdentifier"
          \/ enums_unify_to_matter[i][2] = "OnOff::EffectIdentifierEnum"
          => i = 32
    BY SMTT(60) DEF enums_unify_to_matter
  <1>3. OnlyAt(enums_unify_to_matter, 32, "OffWithEffectEffectIdentifier", "OnOff::EffectIdentifierEnum")
    BY <1>1, <1>2, EnumLiteral DEF OnlyAt
  <1>4. QED
    BY <1>3, ListedOnce

LEMMA ListedStartUp == Listed("OnOffStartUpOnOff", "StartUpOnOffEnum")
  <1>1. enums_unify_to_matter[34][1] = "OnOffStartUpOnOff" /\ enums_unify_to_matter[34][2] = "StartUpOnOffEnum"
    BY DEF enums_unify_to_matter
  <1>2. \A i \in 1 .. 55 :
          \/ enums_unify_to_matter[i][1] = "OnOffStartUpOnOff"
          \/ enums_unify_to_matter[i][2] = "StartUpOnOffEnum"
          => i = 34
    BY SMTT(60) DEF enums_unify_to_matter
  <1>3. OnlyAt(enums_unify_to_matter, 34, "OnOffStartUpOnOff", "StartUpOnOffEnum")
    BY <1>1, <1>2, EnumLiteral DEF OnlyAt
  <1>4. QED
    BY <1>3, ListedOnce

-----------------------------------------------------------------------------
(***************************************************************************)
(* The Unify enumerations the generated converter names.                   *)
(***************************************************************************)
LEMMA MergedRight ==
  ASSUME NEW f, NEW g, NEW x, x \notin DOMAIN f, x \in DOMAIN g
  PROVE  x \in DOMAIN (f ++ g) /\ (f ++ g)[x] = g[x]
  BY DEF ++

LEMMA MergedLeft ==
  ASSUME NEW f, NEW g, NEW x, x \in DOMAIN f
  PROVE  x \in DOMAIN (f ++ g) /\ (f ++ g)[x] = f[x]
  BY DEF ++

LEMMA UnifyEnumNames ==
  DOMAIN UnifyEnums =
    DOMAIN UnifyEnums1 \cup DOMAIN UnifyEnums2 \cup DOMAIN UnifyEnums3 \cup DOMAIN UnifyEnums4
    \cup DOMAIN UnifyEnums5 \cup DOMAIN UnifyEnums6 \cup DOMAIN UnifyEnums7 \cup DOMAIN UnifyEnums8
  BY DEF UnifyEnums, ++

\* Effects and start-up values have a Unify enumeration; the effects' unqualified
\* name has none.
LEMMA UnifyTypes ==
  /\ ~IsUnifyEnum("EffectIdentifierEnum") /\ ~IsUnifyEnum("::")
  /\ IsUnifyEnum("OffWithEffectEffectIdentifier") /\ UnifyEnums["OffWithEffectEffectIdentifier"] = 2
  /\ IsUnifyEnum("OnOffStartUpOnOff") /\ UnifyEnums["OnOffStartUpOnOff"] = 4
  <1> DEFINE Part1 == UnifyEnums1 ++ UnifyEnums2 ++ UnifyEnums3 ++ UnifyEnums4 ++ UnifyEnums5
             None == {"EffectIdentifierEnum", "::"}
             Two == {"OffWithEffectEffectIdentifier", "OnOffStartUpOnOff"}
  <1>1. \A x \in None \cup Two :
          /\ x \notin DOMAIN UnifyEnums1 /\ x \notin DOMAIN UnifyEnums2 /\ x \notin DOMAIN UnifyEnums3
          /\ x \notin DOMAIN UnifyEnums4 /\ x \notin DOMAIN UnifyEnums5
    BY DEF UnifyEnums1, UnifyEnums2, UnifyEnums3, UnifyEnums4, UnifyEnums5
  <1>2. \A x \in None : x \notin DOMAIN UnifyEnums6 /\ x \notin DOMAIN UnifyEnums7 /\ x \notin DOMAIN UnifyEnums8
    BY DEF UnifyEnums6, UnifyEnums7, UnifyEnums8
  <1>3. /\ Two \subseteq DOMAIN UnifyEnums6
        /\ UnifyEnums6["OffWithEffectEffectIdentifier"] = 2 /\ UnifyEnums6["OnOffStartUpOnOff"] = 4
    BY DEF UnifyEnums6
  <1>4. UnifyEnums = Part1 ++ UnifyEnums6 ++ UnifyEnums7 ++ UnifyEnums8
    BY DEF UnifyEnums
  <1>5. \A x \in Two : x \notin DOMAIN Part1
    <2>1. DOMAIN Part1 = DOMAIN UnifyEnums1 \cup DOMAIN UnifyEnums2 \cup DOMAIN UnifyEnums3
                         \cup DOMAIN UnifyEnums4 \cup DOMAIN UnifyEnums5
      BY DEF ++
    <2>2. QED
      BY <1>1, <2>1
  <1> HIDE DEF Part1
  <1>6. \A x \in Two : x \in DOMAIN (Part1 ++ UnifyEnums6) /\ (Part1 ++ UnifyEnums6)[x] = UnifyEnums6[x]
    BY <1>3, <1>5, MergedRight
  <1>7. \A x \in Two : x \in DOMAIN UnifyEnums /\ UnifyEnums[x] = UnifyEnums6[x]
    BY <1>4, <1>6, MergedLeft
  <1>8. \A x \in None : x \notin DOMAIN UnifyEnums
    BY <1>1, <1>2, UnifyEnumNames
  <1>9. QED
    BY <1>3, <1>7, <1>8 DEF IsUnifyEnum

-----------------------------------------------------------------------------
(***************************************************************************)
(* Look-ups.  A table is either still empty or filled, and a look-up       *)
(* answers from the filled one.                                            *)
(***************************************************************************)
Table == {EmptyTable, ReverseEnums}

LEMMA FilledTable ==
  ASSUME NEW t \in Table
  PROVE  Filled(t) = ReverseEnums /\ Filled(t) \in Table
  BY DEF Table, Filled, EmptyTable

\* A look-up answers the same from either.
LEMMA SameLookup ==
  ASSUME NEW t \in Table
  PROVE  \A m : unify_enum_name(t, m) = unify_enum_name(EmptyTable, m)
  <1>1. Filled(t) = Filled(EmptyTable)
    BY FilledTable DEF Table
  <1>2. QED
    BY <1>1 DEF unify_enum_name

LEMMA LookedUp ==
  ASSUME NEW m, m # "SaturationMoveMode", m # "SaturationStepMode"
  PROVE  unify_enum_name(EmptyTable, m) = IF m \in DOMAIN ReverseEnums THEN ReverseEnums[m] ELSE m
  <1>1. Filled(EmptyTable) = ReverseEnums
    BY FilledTable DEF Table
  <1>2. QED
    BY <1>1 DEF unify_enum_name

\* What the converter asks.
LEMMA ConverterNames ==
  /\ unify_enum_name(EmptyTable, "EffectIdentifierEnum") = "EffectIdentifierEnum"
  /\ unify_enum_name(EmptyTable, "OnOff::EffectIdentifierEnum") = "OffWithEffectEffectIdentifier"
  /\ unify_enum_name(EmptyTable, "StartUpOnOffEnum") = "OnOffStartUpOnOff"
  /\ unify_enum_name(EmptyTable, "::") = "::"
  <1>1. "EffectIdentifierEnum" \notin DOMAIN ReverseEnums /\ "::" \notin DOMAIN ReverseEnums
    BY UnlistedNotFound DEF Unlisted
  <1>2. QED
    BY <1>1, LookedUp, ListedEffect, ListedStartUp DEF Listed

-----------------------------------------------------------------------------
(***************************************************************************)
(* What has been generated is a function of the clusters visited.          *)
(***************************************************************************)

\* What template f generates for the first n clusters, from an empty table.
Made(f, n) ==
  UNION {Generated(f, EmptyTable, MatterClusters[i]) : i \in {j \in 1 .. n : supportedClusterByMpc(MatterClusters[j])}}

\* Neither the other templates nor the table have a part in it.
OrderIndependent == out = [f \in Templates |-> Made(f, pos[f])]

IInv == TypeOK /\ OrderIndependent

LEMMA SameGenerated ==
  ASSUME NEW t \in Table, NEW f \in Templates, NEW code
  PROVE  Generated(f, t, code) = Generated(f, EmptyTable, code)
  <1>1. \A m, c : matterUnifyEnumMapped(t, m, c) = matterUnifyEnumMapped(EmptyTable, m, c)
    BY SameLookup DEF matterUnifyEnumMapped
  <1>2. \A m, c : unifyEnumType(t, m, c) = unifyEnumType(EmptyTable, m, c)
    BY SameLookup DEF unifyEnumType
  <1>3. \A m, i, c : unifyEnumValName(t, m, i, c) = unifyEnumValName(EmptyTable, m, i, c)
    BY <1>1, <1>2 DEF unifyEnumValName
  <1>4. \A m, i : unknownEnumValue(t, m, i) = unknownEnumValue(EmptyTable, m, i)
    BY SameLookup DEF unknownEnumValue
  <1>5. \A m, i : checkUnknownEnumValue(t, m, i) = checkUnknownEnumValue(EmptyTable, m, i)
    BY <1>4 DEF checkUnknownEnumValue
  <1>6. \A m, n : ConvertEnum(t, code, m, n) = ConvertEnum(EmptyTable, code, m, n)
    BY <1>2, <1>3, <1>4, <1>5 DEF ConvertEnum
  <1>7. Converter(t, code) = Converter(EmptyTable, code)
    BY <1>6 DEF Converter
  <1>8. QED
    BY <1>7 DEF Generated

LEMMA LastType == Last \in Nat
  BY DEF Last, MatterClusters

\* One more cluster.
LEMMA MadeNext ==
  ASSUME NEW f \in Templates, NEW n \in Nat
  PROVE  Made(f, n + 1) =
           Made(f, n) \cup IF supportedClusterByMpc(MatterClusters[n + 1])
                           THEN Generated(f, EmptyTable, MatterClusters[n + 1]) ELSE {}
  <1>1. 1 .. n + 1 = 1 .. n \cup {n + 1}
    OBVIOUS
  <1>2. QED
    BY <1>1 DEF Made

LEMMA MadeNone ==
  ASSUME NEW f \in Templates
  PROVE  Made(f, 0) = {}
  BY DEF Made

LEMMA InvInit == Init => IInv
  <1> SUFFICES ASSUME Init PROVE IInv
    OBVIOUS
  <1>1. TypeOK
    BY LastType DEF Init, TypeOK
  <1>2. out = [f \in Templates |-> Made(f, pos[f])]
    BY MadeNone DEF Init
  <1>3. QED
    BY <1>1, <1>2 DEF IInv, OrderIndependent

LEMMA InvNext ==
  ASSUME IInv, [Next]_vars
  PROVE  IInv'
  <1>1. CASE UNCHANGED vars
    BY <1>1 DEF IInv, TypeOK, OrderIndependent, vars, Rendered
  <1>2. ASSUME NEW f \in Templates, VisitCluster(f) PROVE IInv'
    <2> DEFINE code == MatterClusters[pos[f] + 1]
               t == enums_matter_to_unify
    <2>1. t \in Table /\ pos \in [Templates -> 0 .. Last] /\ pos[f] \in Nat
      BY LastType DEF IInv, TypeOK, Table
    <2>2. pos[f] < Last /\ pos' = [pos EXCEPT ![f] = pos[f] + 1]
      BY <1>2 DEF VisitCluster
    <2>3. pos' \in [Templates -> 0 .. Last] /\ pos'[f] = pos[f] + 1
          /\ \A g \in Templates : g # f => pos'[g] = pos[g]
      BY <2>1, <2>2, LastType
    <2>4. enums_matter_to_unify' \in Table
      BY <1>2, <2>1, FilledTable DEF VisitCluster
    <2>5. out = [g \in Templates |-> Made(g, pos[g])]
      BY DEF IInv, OrderIndependent
    <2>6. Made(f, pos'[f]) = Made(f, pos[f]) \cup IF supportedClusterByMpc(code) THEN Generated(f, t, code) ELSE {}
      BY <2>1, <2>3, MadeNext, SameGenerated
    <2>7. \A g \in Templates : g # f => Made(g, pos'[g]) = Made(g, pos[g])
      BY <2>3
    <2>8. out' = [g \in Templates |-> IF g = f THEN Made(f, pos'[f]) ELSE Made(g, pos[g])]
      <3>1. CASE supportedClusterByMpc(code)
        <4>1. out' = [out EXCEPT ![f] = out[f] \cup Generated(f, t, code)]
          BY <1>2, <3>1 DEF VisitCluster
        <4>2. QED
          BY <2>5, <2>6, <3>1, <4>1
      <3>2. CASE ~supportedClusterByMpc(code)
        <4>1. out' = out
          BY <1>2, <3>2 DEF VisitCluster
        <4>2. QED
          BY <2>5, <2>6, <3>2, <4>1
      <3>3. QED
        BY <3>1, <3>2
    <2>9. out' = [g \in Templates |-> Made(g, pos'[g])]
      BY <2>7, <2>8
    <2>10. QED
      BY <2>3, <2>4, <2>9 DEF IInv, TypeOK, OrderIndependent, Table
  <1>3. QED
    BY <1>1, <1>2 DEF Next

\* Every state of a generation has tables, positions and files of the right kind.
THEOREM TypeCorrect == Spec => []TypeOK
  <1>1. IInv => TypeOK
    BY DEF IInv
  <1>2. QED
    BY <1>1, InvInit, InvNext, PTL DEF Spec

\* In whatever order ZAP renders the templates, and whether or not the table was filled
\* before, a template has generated what its clusters alone determine.
THEOREM OutputDetermined == Spec => []OrderIndependent
  <1>1. IInv => OrderIndependent
    BY DEF IInv
  <1>2. QED
    BY <1>1, InvInit, InvNext, PTL DEF Spec

\* No look-up is answered differently before and after a step, although the first
\* look-up fills enums_matter_to_unify (unify_matter_mapping.js).
THEOREM LookupsStable == Spec => StableLookup
  <1> DEFINE Same == \A m \in DOMAIN MatterEnums :
                       unify_enum_name(enums_matter_to_unify', m) = unify_enum_name(enums_matter_to_unify, m)
  <1>1. ASSUME IInv, IInv' PROVE Same
    <2>1. enums_matter_to_unify \in Table /\ enums_matter_to_unify' \in Table
      BY <1>1 DEF IInv, TypeOK, Table
    <2>2. QED
      BY <2>1, SameLookup
  <1>2. QED
    BY <1>1, InvInit, InvNext, PTL DEF Spec, StableLookup

-----------------------------------------------------------------------------
(***************************************************************************)
(* The rendered files.                                                     *)
(***************************************************************************)
LEMMA BothVisited ==
  ASSUME NEW f \in Templates
  PROVE  Made(f, Last) = Generated(f, EmptyTable, OnOff) \cup Generated(f, EmptyTable, Descriptor)
  <1>1. /\ 3 \in 1 .. Last /\ MatterClusters[3] = OnOff
        /\ 8 \in 1 .. Last /\ MatterClusters[8] = Descriptor
    BY DEF Last, MatterClusters, OnOff, Descriptor
  <1>2. QED
    BY <1>1 DEF Made, supportedClusterByMpc

LEMMA EffectConverted ==
  ConvertEnum(EmptyTable, OnOff, "EffectIdentifierEnum", 2) =
    {<<"item", OnOff, "EffectIdentifierEnum", 0, "OffWithEffectEffectIdentifier", 0>>,
     <<"item", OnOff, "EffectIdentifierEnum", 1, "OffWithEffectEffectIdentifier", 1>>}
  <1> DEFINE m == "EffectIdentifierEnum"
             u == "OffWithEffectEffectIdentifier"
  <1>1. clusterNameWithoutSlash(OnOff) = "OnOff" /\ Qualified("OnOff", m) = "OnOff::EffectIdentifierEnum"
    BY DEF clusterNameWithoutSlash, Qualified, OnOff, Descriptor
  <1>2. matterUnifyEnumMapped(EmptyTable, m, "OnOff") /\ unifyEnumType(EmptyTable, m, "OnOff") = u
    BY <1>1, ConverterNames, UnifyTypes DEF matterUnifyEnumMapped, unifyEnumType
  <1>3. unifyEnumValName(EmptyTable, m, 0, "OnOff") = 0 /\ unifyEnumValName(EmptyTable, m, 1, "OnOff") = 1
    BY <1>2, UnifyTypes DEF unifyEnumValName, Item
  <1>4. ~checkUnknownEnumValue(EmptyTable, m, 1)
    BY ConverterNames, UnifyTypes DEF checkUnknownEnumValue, unknownEnumValue
  <1>5. 0 .. (2 - 1) = {0, 1} /\ 2 - 1 = 1 /\ unifyTypeExists(m)
    BY DEF unifyTypeExists
  <1>6. QED
    BY <1>1, <1>2, <1>3, <1>4, <1>5 DEF ConvertEnum

LEMMA StartUpConverted ==
  ConvertEnum(EmptyTable, OnOff, "StartUpOnOffEnum", 3) =
    {<<"item", OnOff, "StartUpOnOffEnum", i, "OnOffStartUpOnOff", i>> : i \in 0 .. 3}
  <1> DEFINE m == "StartUpOnOffEnum"
             u == "OnOffStartUpOnOff"
  <1>1. clusterNameWithoutSlash(OnOff) = "OnOff"
    BY DEF clusterNameWithoutSlash, OnOff, Descriptor
  <1>2. matterUnifyEnumMapped(EmptyTable, m, "OnOff") /\ unifyEnumType(EmptyTable, m, "OnOff") = u
    BY ConverterNames, UnifyTypes DEF matterUnifyEnumMapped, unifyEnumType
  <1>3. \A i \in 0 .. 2 : unifyEnumValName(EmptyTable, m, i, "OnOff") = i
    BY <1>2, UnifyTypes DEF unifyEnumValName, Item
  <1>4. unknownEnumValue(EmptyTable, m, 2) = 3
    BY ConverterNames, UnifyTypes DEF unknownEnumValue, Item
  <1>5. checkUnknownEnumValue(EmptyTable, m, 2)
    BY <1>4 DEF checkUnknownEnumValue, Undefined
  <1>6. 3 - 1 = 2 /\ unifyTypeExists(m) /\ 0 .. 3 = 0 .. 2 \cup {3}
    BY DEF unifyTypeExists
  <1>7. ConvertEnum(EmptyTable, OnOff, m, 3) =
          {<<"item", OnOff, m, i, u, unifyEnumValName(EmptyTable, m, i, "OnOff")>> : i \in 0 .. 2}
          \cup {<<"item", OnOff, m, 3, u, 3>>}
    BY <1>1, <1>2, <1>4, <1>5, <1>6 DEF ConvertEnum
  <1>8. QED
    BY <1>3, <1>6, <1>7

LEMMA CastConverted ==
  ASSUME NEW m \in {"DelayedAllOffEffectVariantEnum", "DyingLightEffectVariantEnum"}, NEW n
  PROVE  ConvertEnum(EmptyTable, OnOff, m, n) = {<<"cast", OnOff, m>>}
  BY DEF ConvertEnum, unifyTypeExists

LEMMA ConverterMade == Converter(EmptyTable, OnOff) = ConverterFile /\ Converter(EmptyTable, Descriptor) = {}
  <1>1. zcl_enums(OnOff) = {<<"DelayedAllOffEffectVariantEnum", 3>>, <<"DyingLightEffectVariantEnum", 1>>,
                            <<"EffectIdentifierEnum", 2>>, <<"StartUpOnOffEnum", 3>>}
    BY DEF zcl_enums
  <1>2. Converter(EmptyTable, OnOff) =
          ConvertEnum(EmptyTable, OnOff, "DelayedAllOffEffectVariantEnum", 3)
          \cup ConvertEnum(EmptyTable, OnOff, "DyingLightEffectVariantEnum", 1)
          \cup ConvertEnum(EmptyTable, OnOff, "EffectIdentifierEnum", 2)
          \cup ConvertEnum(EmptyTable, OnOff, "StartUpOnOffEnum", 3)
    BY <1>1 DEF Converter
  <1>3. {<<"item", OnOff, "StartUpOnOffEnum", i, "OnOffStartUpOnOff", i>> : i \in 0 .. 3} =
          {<<"item", OnOff, "StartUpOnOffEnum", 0, "OnOffStartUpOnOff", 0>>,
           <<"item", OnOff, "StartUpOnOffEnum", 1, "OnOffStartUpOnOff", 1>>,
           <<"item", OnOff, "StartUpOnOffEnum", 2, "OnOffStartUpOnOff", 2>>,
           <<"item", OnOff, "StartUpOnOffEnum", 3, "OnOffStartUpOnOff", 3>>}
    <2>1. 0 .. 3 = {0, 1, 2, 3}
      OBVIOUS
    <2>2. QED
      BY <2>1
  <1>4. Converter(EmptyTable, OnOff) = ConverterFile
    BY <1>2, <1>3, EffectConverted, StartUpConverted, CastConverted DEF ConverterFile
  <1>5. Converter(EmptyTable, Descriptor) = {}
    BY DEF Converter, zcl_enums, OnOff, Descriptor
  <1>6. QED
    BY <1>4, <1>5

LEMMA HandlersMade == Handlers(OnOff) = HandlersFile /\ Handlers(Descriptor) = {}
  <1>1. OnOff # Descriptor /\ isCommandHandlingRequired(OnOff) /\ ~isCommandHandlingRequired(Descriptor)
    BY DEF OnOff, Descriptor, isCommandHandlingRequired
  <1>2. {<<"argument", OnOff, a[1], IF isUnifyEnumNameDifferent(a[2]) THEN unifyEnumName(a[2]) ELSE a[2]>> :
           a \in zcl_command_enums(OnOff)}
        = {<<"argument", OnOff, 64, "OffWithEffectEffectIdentifier">>}
    BY DEF zcl_command_enums, isUnifyEnumNameDifferent, unifyEnumName
  <1>3. zcl_commands(OnOff) = {0, 1, 2, 64, 65, 66}
    BY DEF zcl_commands, OnOffCommands
  <1>4. QED
    BY <1>1, <1>2, <1>3 DEF Handlers, HandlersFile

LEMMA HandlersHeaderMade == HandlersHeader(OnOff) = HandlersHeaderFile /\ HandlersHeader(Descriptor) = {}
  BY DEF HandlersHeader, HandlersHeaderFile, isCommandHandlingRequired, OnOff, Descriptor

LEMMA ParserHeaderMade == ParserHeader(OnOff) \cup ParserHeader(Descriptor) = ParserHeaderFile
  BY DEF ParserHeader, ParserHeaderFile

\* The attributes of a cluster that get a case.
LEMMA ParsedAttributes ==
  /\ {x \in zcl_attributes_server(OnOff) : supportedAttributes(OnOff, x)} =
       {0, 16384, 16385, 16386, 16387, 65528, 65529, 65531, 65532, 65533}
  /\ {x \in zcl_attributes_server(Descriptor) : supportedAttributes(Descriptor, x)} = {0, 1, 2, 3}
  <1>1. OnOff # Descriptor
    BY DEF OnOff, Descriptor
  <1>2. zcl_attributes_server(OnOff) = OnOffAttributes /\ zcl_attributes_server(Descriptor) = DescriptorAttributes
    BY <1>1 DEF zcl_attributes_server
  <1>3. /\ \A x : supportedAttributes(OnOff, x) <=> x \in {0} \cup 16384 .. 16387 \cup {65528, 65529, 65531, 65532, 65533}
        /\ \A x : supportedAttributes(Descriptor, x) <=> x \in 0 .. 3
    BY <1>1 DEF supportedAttributes
  <1>4. 16384 .. 16387 = {16384, 16385, 16386, 16387} /\ 0 .. 3 = {0, 1, 2, 3}
    OBVIOUS
  <1>5. {65528, 65529, 65531, 65532, 65533} \subseteq OnOffAttributes /\ {0} \cup 16384 .. 16387 \subseteq OnOffAttributes
    BY DEF OnOffAttributes
  <1>6. 0 .. 3 \subseteq DescriptorAttributes
    BY DEF DescriptorAttributes
  <1>7. QED
    BY <1>2, <1>3, <1>4, <1>5, <1>6

\* The cases of a parser: yes and no are the attributes whose entries are processed or
\* not.
LEMMA ParserCases ==
  ASSUME NEW code, NEW yes, NEW no,
         {x \in zcl_attributes_server(code) : supportedAttributes(code, x)} = yes \cup no,
         \A a \in yes : isProcessingRequired(code, a) = TRUE,
         \A a \in no : isProcessingRequired(code, a) = FALSE
  PROVE  Parser(code) =
           {<<"parser", code>>} \cup {<<"case", code, a, TRUE>> : a \in yes} \cup {<<"case", code, a, FALSE>> : a \in no}
  BY Zenon DEF Parser

\* The attributes with a case, by whether their entries are processed.
OnOffYes == {65529, 65531}
OnOffNo == {0, 16384, 16385, 16386, 16387, 65528, 65532, 65533}
DescriptorYes == {1, 3}
DescriptorNo == {0, 2}
Entry(code, a, p) == <<"case", code, a, p>>

LEMMA ParserFileParts ==
  ParserFile =
    {<<"parser", OnOff>>, <<"parser", Descriptor>>}
    \cup {Entry(OnOff, a, FALSE) : a \in OnOffNo} \cup {Entry(OnOff, a, TRUE) : a \in OnOffYes}
    \cup {Entry(Descriptor, a, FALSE) : a \in DescriptorNo} \cup {Entry(Descriptor, a, TRUE) : a \in DescriptorYes}
  BY DEF ParserFile, Entry, OnOffYes, OnOffNo, DescriptorYes, DescriptorNo

LEMMA ParserMade == Parser(OnOff) \cup Parser(Descriptor) = ParserFile
  <1>1. OnOff # Descriptor
    BY DEF OnOff, Descriptor
  <1>2. /\ \A a \in OnOffYes : isProcessingRequired(OnOff, a) = TRUE
        /\ \A a \in OnOffNo : isProcessingRequired(OnOff, a) = FALSE
        /\ \A a \in DescriptorYes : isProcessingRequired(Descriptor, a) = TRUE
        /\ \A a \in DescriptorNo : isProcessingRequired(Descriptor, a) = FALSE
    BY <1>1 DEF isProcessingRequired, OnOffYes, OnOffNo, DescriptorYes, DescriptorNo
  <1>3. /\ {x \in zcl_attributes_server(OnOff) : supportedAttributes(OnOff, x)} = OnOffYes \cup OnOffNo
        /\ {x \in zcl_attributes_server(Descriptor) : supportedAttributes(Descriptor, x)} = DescriptorYes \cup DescriptorNo
    BY ParsedAttributes DEF OnOffYes, OnOffNo, DescriptorYes, DescriptorNo
  <1> DEFINE A == {Entry(OnOff, a, TRUE) : a \in OnOffYes}
             B == {Entry(OnOff, a, FALSE) : a \in OnOffNo}
             C == {Entry(Descriptor, a, TRUE) : a \in DescriptorYes}
             D == {Entry(Descriptor, a, FALSE) : a \in DescriptorNo}
  <1>4. Parser(OnOff) = {<<"parser", OnOff>>} \cup A \cup B
    BY <1>2, <1>3, ParserCases, Zenon DEF Entry
  <1>5. Parser(Descriptor) = {<<"parser", Descriptor>>} \cup C \cup D
    BY <1>2, <1>3, ParserCases, Zenon DEF Entry
  <1>6. ParserFile = {<<"parser", OnOff>>, <<"parser", Descriptor>>} \cup B \cup A \cup D \cup C
    BY ParserFileParts
  <1> HIDE DEF A, B, C, D
  <1>7. QED
    BY <1>4, <1>5, <1>6

LEMMA RenderedIsCheckedIn ==
  ASSUME NEW f \in Templates
  PROVE  Made(f, Last) = CheckedIn(f)
  <1>1. Made(f, Last) = Generated(f, EmptyTable, OnOff) \cup Generated(f, EmptyTable, Descriptor)
    BY BothVisited
  <1>2. QED
    BY <1>1, ConverterMade, HandlersMade, HandlersHeaderMade, ParserHeaderMade, ParserMade
       DEF Templates, Generated, CheckedIn

\* Each checked-in handler file is what its template produces (mpc-templates.json and
\* linux/zap-generated/handlers), whatever the order of the templates.
THEOREM GeneratedUpToDate == Spec => []UpToDate
  <1>1. IInv => UpToDate
    <2> SUFFICES ASSUME IInv, NEW f \in Templates, Rendered(f) PROVE out[f] = CheckedIn(f)
      BY DEF UpToDate
    <2>1. out[f] = Made(f, Last)
      BY DEF IInv, OrderIndependent, Rendered
    <2>2. QED
      BY <2>1, RenderedIsCheckedIn
  <1>2. QED
    BY <1>1, InvInit, InvNext, PTL DEF Spec

\* What is generated so far is part of the rendered file.
LEMMA MadePart ==
  ASSUME NEW f \in Templates, NEW n
  PROVE  Made(f, n) \subseteq CheckedIn(f)
  <1>1. Made(f, n) \subseteq Generated(f, EmptyTable, OnOff) \cup Generated(f, EmptyTable, Descriptor)
    BY DEF Made, supportedClusterByMpc
  <1>2. QED
    BY <1>1, BothVisited, RenderedIsCheckedIn

LEMMA ConverterItems ==
  ASSUME NEW x \in ConverterFile, x[1] = "item"
  PROVE  IsUnifyEnum(x[5]) /\ x[6] \in 0 .. (UnifyEnums[x[5]] - 1)
  <1>1. \/ x[5] = "OffWithEffectEffectIdentifier" /\ x[6] \in {0, 1}
        \/ x[5] = "OnOffStartUpOnOff" /\ x[6] \in {0, 1, 2, 3}
    BY DEF ConverterFile
  <1>2. QED
    BY <1>1, UnifyTypes

LEMMA ArgumentType ==
  ASSUME NEW t \in Table
  PROVE  unifyEnumType(t, "EffectIdentifierEnum", "OnOff") = "OffWithEffectEffectIdentifier"
  <1>1. Qualified("OnOff", "EffectIdentifierEnum") = "OnOff::EffectIdentifierEnum"
    BY DEF Qualified
  <1>2. QED
    BY <1>1, SameLookup, ConverterNames, UnifyTypes DEF unifyEnumType

LEMMA HandlerArguments ==
  ASSUME NEW t \in Table, NEW x \in HandlersFile, x[1] = "argument"
  PROVE  \E a \in zcl_command_enums(x[2]) :
           a[1] = x[3] /\ x[4] = unifyEnumType(t, a[2], clusterNameWithoutSlash(x[2]))
  <1>1. x = <<"argument", OnOff, 64, "OffWithEffectEffectIdentifier">>
    BY DEF HandlersFile
  <1>2. clusterNameWithoutSlash(OnOff) = "OnOff" /\ <<64, "EffectIdentifierEnum">> \in zcl_command_enums(OnOff)
    BY DEF clusterNameWithoutSlash, zcl_command_enums, OnOff, Descriptor
  <1>3. QED
    BY <1>1, <1>2, ArgumentType

\* The generated C++ names only Unify items that exist, and passes a command argument of
\* the type that the converter gives the attribute (matter_to_unify_converter.hpp and
\* dotdot_mqtt_to_matter.cpp), also while the files are being rendered.
THEOREM GeneratedCompiles == Spec => []Compiles
  <1>1. IInv => Compiles
    <2> SUFFICES ASSUME IInv PROVE Compiles
      OBVIOUS
    <2> DEFINE conv == "matter_to_unify_converter.hpp"
               hand == "dotdot_mqtt_to_matter.cpp"
    <2>1. enums_matter_to_unify \in Table
      BY DEF IInv, TypeOK, Table
    <2>2. conv \in Templates /\ hand \in Templates
      BY DEF Templates
    <2>3. out[conv] = Made(conv, pos[conv]) /\ out[hand] = Made(hand, pos[hand])
      BY <2>2 DEF IInv, OrderIndependent
    <2>4. CheckedIn(conv) = ConverterFile /\ CheckedIn(hand) = HandlersFile
      BY DEF CheckedIn
    <2>5. out[conv] \subseteq ConverterFile /\ out[hand] \subseteq HandlersFile
      BY <2>2, <2>3, <2>4, MadePart
    <2>6. QED
      BY <2>1, <2>5, ConverterItems, HandlerArguments DEF Compiles
  <1>2. QED
    BY <1>1, InvInit, InvNext, PTL DEF Spec

LEMMA ParserCovers ==
  {<<x[2], x[3]>> : x \in {y \in ParserFile : y[1] = "case"}} = ResolverRules
  <1>1. 16384 .. 16387 = {16384, 16385, 16386, 16387} /\ 0 .. 3 = {0, 1, 2, 3}
    OBVIOUS
  <1>2. /\ {65528, 65529, 65531, 65532, 65533} \cup {0} \cup 16384 .. 16387 = OnOffYes \cup OnOffNo
        /\ 0 .. 3 = DescriptorYes \cup DescriptorNo
    BY <1>1 DEF OnOffYes, OnOffNo, DescriptorYes, DescriptorNo
  <1>3. ResolverRules =
          {<<Descriptor, a>> : a \in DescriptorYes \cup DescriptorNo} \cup {<<OnOff, a>> : a \in OnOffYes \cup OnOffNo}
    BY <1>2 DEF ResolverRules
  <1>4. \A c, a, p : Entry(c, a, p)[1] = "case" /\ Entry(c, a, p)[2] = c /\ Entry(c, a, p)[3] = a
    BY DEF Entry
  <1>5. ASSUME NEW x \in ParserFile, x[1] = "case" PROVE <<x[2], x[3]>> \in ResolverRules
    <2>1. x # <<"parser", OnOff>> /\ x # <<"parser", Descriptor>>
      BY <1>5
    <2>2. \E p : \/ \E a \in OnOffYes \cup OnOffNo : x = Entry(OnOff, a, p)
                 \/ \E a \in DescriptorYes \cup DescriptorNo : x = Entry(Descriptor, a, p)
      BY <1>5, <2>1, ParserFileParts, Zenon
    <2>3. QED
      BY <1>3, <1>4, <2>2
  <1>6. ASSUME NEW a \in OnOffYes \cup OnOffNo
        PROVE  \E p : Entry(OnOff, a, p) \in ParserFile
    BY <1>6, ParserFileParts, Zenon
  <1>7. ASSUME NEW a \in DescriptorYes \cup DescriptorNo
        PROVE  \E p : Entry(Descriptor, a, p) \in ParserFile
    BY <1>7, ParserFileParts, Zenon
  <1>8. QED
    BY <1>3, <1>4, <1>5, <1>6, <1>7

\* Once the parsers are rendered, exactly the attributes with a resolver rule have a
\* case, and exactly the registered parsers exist (mpc_attribute_cluster_parser.cpp,
\* the rules of the attribute resolver): an interview never asks for a value that no
\* parser takes.
THEOREM InterviewIsWired == Spec => []InterviewWired
  <1>1. IInv => InterviewWired
    <2> SUFFICES ASSUME IInv PROVE InterviewWired
      OBVIOUS
    <2> DEFINE cases == "mpc_attribute_cluster_parser.cpp"
               parsers == "mpc_attribute_cluster_parser.h"
    <2>1. cases \in Templates /\ parsers \in Templates
      BY DEF Templates
    <2>2. CheckedIn(cases) = ParserFile /\ CheckedIn(parsers) = ParserHeaderFile
      BY DEF CheckedIn
    <2>3. /\ Rendered(cases) => out[cases] = ParserFile
          /\ Rendered(parsers) => out[parsers] = ParserHeaderFile
      BY <2>1, <2>2, RenderedIsCheckedIn DEF IInv, OrderIndependent, Rendered
    <2>4. {x[2] : x \in ParserHeaderFile} = RegisteredParsers
      BY DEF ParserHeaderFile, RegisteredParsers
    <2>5. QED
      BY <2>3, <2>4, ParserCovers DEF InterviewWired
  <1>2. QED
    BY <1>1, InvInit, InvNext, PTL DEF Spec

-----------------------------------------------------------------------------
(***************************************************************************)
(* There and back: a name of the Matter model is not at the same time a    *)
(* name on the Unify side of the tables, except one that stands for        *)
(* itself.                                                                 *)
(***************************************************************************)
LEMMA MatterEnumNames ==
  DOMAIN MatterEnums =
    DOMAIN MatterEnums1 \cup DOMAIN MatterEnums2 \cup DOMAIN MatterEnums3 \cup DOMAIN MatterEnums4
    \cup DOMAIN MatterEnums5 \cup DOMAIN MatterEnums6 \cup DOMAIN MatterEnums7 \cup DOMAIN MatterEnums8
    \cup DOMAIN MatterEnums9 \cup DOMAIN MatterEnums10 \cup DOMAIN MatterEnums11 \cup DOMAIN MatterEnums12
  <1> DEFINE Half == MatterEnums1 ++ MatterEnums2 ++ MatterEnums3 ++ MatterEnums4 ++ MatterEnums5 ++ MatterEnums6
  <1>1. DOMAIN Half =
          DOMAIN MatterEnums1 \cup DOMAIN MatterEnums2 \cup DOMAIN MatterEnums3 \cup DOMAIN MatterEnums4
          \cup DOMAIN MatterEnums5 \cup DOMAIN MatterEnums6
    BY DEF ++
  <1>2. MatterEnums = Half ++ MatterEnums7 ++ MatterEnums8 ++ MatterEnums9 ++ MatterEnums10 ++ MatterEnums11
                        ++ MatterEnums12
    BY DEF MatterEnums
  <1> HIDE DEF Half
  <1>3. DOMAIN MatterEnums = DOMAIN Half \cup
          DOMAIN MatterEnums7 \cup DOMAIN MatterEnums8 \cup DOMAIN MatterEnums9 \cup DOMAIN MatterEnums10
          \cup DOMAIN MatterEnums11 \cup DOMAIN MatterEnums12
    BY <1>2 DEF ++
  <1>4. QED
    BY <1>1, <1>3

\* Names of Unify enumerations, mapped or not.
UnifySide(x) == x \in enums_without_matter \/ \E i \in 1 .. 55 : x = enums_unify_to_matter[i][1]

LEMMA UnifyNamesApart == \A x \in DOMAIN MatterEnums : ~UnifySide(x)
  <1>1. \A x \in DOMAIN MatterEnums1 : ~UnifySide(x)
    <2>1. \A i \in 1 .. 55 : enums_unify_to_matter[i][1] \notin DOMAIN MatterEnums1
      BY SMTT(60) DEF enums_unify_to_matter, MatterEnums1
    <2>2. \A x \in enums_without_matter : x \notin DOMAIN MatterEnums1
      BY SMTT(60) DEF enums_without_matter, MatterEnums1
    <2>3. QED
      BY <2>1, <2>2 DEF UnifySide
  <1>2. \A x \in DOMAIN MatterEnums2 : ~UnifySide(x)
    <2>1. \A i \in 1 .. 55 : enums_unify_to_matter[i][1] \notin DOMAIN MatterEnums2
      BY SMTT(60) DEF enums_unify_to_matter, MatterEnums2
    <2>2. \A x \in enums_without_matter : x \notin DOMAIN MatterEnums2
      BY SMTT(60) DEF enums_without_matter, MatterEnums2
    <2>3. QED
      BY <2>1, <2>2 DEF UnifySide
  <1>3. \A x \in DOMAIN MatterEnums3 : ~UnifySide(x)
    <2>1. \A i \in 1 .. 55 : enums_unify_to_matter[i][1] \notin DOMAIN MatterEnums3
      BY SMTT(60) DEF enums_unify_to_matter, MatterEnums3
    <2>2. \A x \in enums_without_matter : x \notin DOMAIN MatterEnums3
      BY SMTT(60) DEF enums_without_matter, MatterEnums3
    <2>3. QED
      BY <2>1, <2>2 DEF UnifySide
  <1>4. \A x \in DOMAIN MatterEnums4 : ~UnifySide(x)
    <2>1. \A i \in 1 .. 55 : enums_unify_to_matter[i][1] \notin DOMAIN MatterEnums4
      BY SMTT(60) DEF enums_unify_to_matter, MatterEnums4
    <2>2. \A x \in enums_without_matter : x \notin DOMAIN MatterEnums4
      BY SMTT(60) DEF enums_without_matter, MatterEnums4
    <2>3. QED
      BY <2>1, <2>2 DEF UnifySide
  <1>5. \A x \in DOMAIN MatterEnums5 : ~UnifySide(x)
    <2>1. \A i \in 1 .. 55 : enums_unify_to_matter[i][1] \notin DOMAIN MatterEnums5
      BY SMTT(60) DEF enums_unify_to_matter, MatterEnums5
    <2>2. \A x \in enums_without_matter : x \notin DOMAIN MatterEnums5
      BY SMTT(60) DEF enums_without_matter, MatterEnums5
    <2>3. QED
      BY <2>1, <2>2 DEF UnifySide
  <1>6. \A x \in DOMAIN MatterEnums6 : ~UnifySide(x)
    <2>1. \A i \in 1 .. 55 : enums_unify_to_matter[i][1] \notin DOMAIN MatterEnums6
      BY SMTT(60) DEF enums_unify_to_matter, MatterEnums6
    <2>2. \A x \in enums_without_matter : x \notin DOMAIN MatterEnums6
      BY SMTT(60) DEF enums_without_matter, MatterEnums6
    <2>3. QED
      BY <2>1, <2>2 DEF UnifySide
  <1>7. \A x \in DOMAIN MatterEnums7 : ~UnifySide(x)
    <2>1. \A i \in 1 .. 55 : enums_unify_to_matter[i][1] \notin DOMAIN MatterEnums7
      BY SMTT(60) DEF enums_unify_to_matter, MatterEnums7
    <2>2. \A x \in enums_without_matter : x \notin DOMAIN MatterEnums7
      BY SMTT(60) DEF enums_without_matter, MatterEnums7
    <2>3. QED
      BY <2>1, <2>2 DEF UnifySide
  <1>8. \A x \in DOMAIN MatterEnums8 : ~UnifySide(x)
    <2>1. \A i \in 1 .. 55 : enums_unify_to_matter[i][1] \notin DOMAIN MatterEnums8
      BY SMTT(60) DEF enums_unify_to_matter, MatterEnums8
    <2>2. \A x \in enums_without_matter : x \notin DOMAIN MatterEnums8
      BY SMTT(60) DEF enums_without_matter, MatterEnums8
    <2>3. QED
      BY <2>1, <2>2 DEF UnifySide
  <1>9. \A x \in DOMAIN MatterEnums9 : ~UnifySide(x)
    <2>1. \A i \in 1 .. 55 : enums_unify_to_matter[i][1] \notin DOMAIN MatterEnums9
      BY SMTT(60) DEF enums_unify_to_matter, MatterEnums9
    <2>2. \A x \in enums_without_matter : x \notin DOMAIN MatterEnums9
      BY SMTT(60) DEF enums_without_matter, MatterEnums9
    <2>3. QED
      BY <2>1, <2>2 DEF UnifySide
  <1>10. \A x \in DOMAIN MatterEnums10 : ~UnifySide(x)
    <2>1. \A i \in 1 .. 55 : enums_unify_to_matter[i][1] \notin DOMAIN MatterEnums10
      BY SMTT(60) DEF enums_unify_to_matter, MatterEnums10
    <2>2. \A x \in enums_without_matter : x \notin DOMAIN MatterEnums10
      BY SMTT(60) DEF enums_without_matter, MatterEnums10
    <2>3. QED
      BY <2>1, <2>2 DEF UnifySide
  <1>11. \A x \in DOMAIN MatterEnums11 : ~UnifySide(x)
    <2>1. \A i \in 1 .. 55 : enums_unify_to_matter[i][1] \notin DOMAIN MatterEnums11
      BY SMTT(60) DEF enums_unify_to_matter, MatterEnums11
    <2>2. \A x \in enums_without_matter : x \notin DOMAIN MatterEnums11
      BY SMTT(60) DEF enums_without_matter, MatterEnums11
    <2>3. QED
      BY <2>1, <2>2 DEF UnifySide
  <1>12. \A x \in DOMAIN MatterEnums12 : ~UnifySide(x)
    <2>1. \A i \in 1 .. 55 : enums_unify_to_matter[i][1] \notin DOMAIN MatterEnums12
      BY SMTT(60) DEF enums_unify_to_matter, MatterEnums12
    <2>2. \A x \in enums_without_matter : x \notin DOMAIN MatterEnums12
      BY SMTT(60) DEF enums_without_matter, MatterEnums12
    <2>3. QED
      BY <2>1, <2>2 DEF UnifySide
  <1>13. QED
    BY <1>1, <1>2, <1>3, <1>4, <1>5, <1>6, <1>7, <1>8, <1>9, <1>10, <1>11, <1>12, MatterEnumNames

\* No key is also in the list of names without a Matter counterpart.
LEMMA KeysApart == \A k \in Keys(enums_unify_to_matter) : k \notin enums_without_matter
  <1>1. \A i \in 1 .. 55 : enums_unify_to_matter[i][1] \notin enums_without_matter
    BY SMTT(60) DEF enums_unify_to_matter, enums_without_matter
  <1>2. QED
    BY <1>1, EnumLiteral DEF Keys

LEMMA KeyTranslated ==
  ASSUME NEW k \in Keys(enums_unify_to_matter)
  PROVE  matter_enum_name(k) = Value(enums_unify_to_matter, k) /\ matter_enum_name(k) \notin Unlisted
  <1>1. matter_enum_name(k) = Value(enums_unify_to_matter, k)
    BY KeysApart DEF matter_enum_name
  <1>2. QED
    BY <1>1, EnumLiteral, UnlistedNames, ValueIsLast

LEMMA EnumRoundTrip ==
  ASSUME NEW m \in DOMAIN MatterEnums
  PROVE  LET u == unify_enum_name(EmptyTable, m) IN unify_enum_name(EmptyTable, matter_enum_name(u)) = u
  <1> DEFINE u == unify_enum_name(EmptyTable, m)
             Back(k) == unify_enum_name(EmptyTable, matter_enum_name(k))
  <1>1. ASSUME NEW k, NEW n, Listed(k, n) PROVE Back(k) = k
    <2>1. matter_enum_name(k) = n /\ n \notin Unlisted
      BY <1>1, KeyTranslated DEF Listed
    <2>2. QED
      BY <1>1, <2>1, LookedUp DEF Listed, Unlisted
  <1>2. CASE m = "SaturationMoveMode"
    <2>1. u = "CCMoveMode"
      BY <1>2 DEF unify_enum_name
    <2>2. QED
      BY <1>1, <2>1, ListedMoveMode
  <1>3. CASE m = "SaturationStepMode"
    <2>1. u = "CCStepMode"
      BY <1>3 DEF unify_enum_name
    <2>2. QED
      BY <1>1, <2>1, ListedStepMode
  <1>4. CASE m \notin {"SaturationMoveMode", "SaturationStepMode"} /\ m \in DOMAIN ReverseEnums
    <2>1. u = ReverseEnums[m]
      BY <1>4, LookedUp
    <2>2. u \in Keys(enums_unify_to_matter) /\ m \in Names(enums_unify_to_matter, enums_second_name, u)
      BY <1>4, <2>1, EnumLiteral, ReverseTakesLast DEF ReverseEnums
    <2>3. CASE m = Value(enums_unify_to_matter, u)
      <3>1. matter_enum_name(u) = m
        BY <2>2, <2>3, KeyTranslated
      <3>2. QED
        BY <3>1
    <2>4. CASE m # Value(enums_unify_to_matter, u)
      <3>1. u = "MoveStepMode"
        BY <2>2, <2>4, SecondNames DEF Names
      <3>2. QED
        BY <1>1, <3>1, ListedLevelMode
    <2>5. QED
      BY <2>3, <2>4
  <1>5. CASE m \notin {"SaturationMoveMode", "SaturationStepMode"} /\ m \notin DOMAIN ReverseEnums
    <2>1. u = m
      BY <1>5, LookedUp
    <2>2. m \notin Keys(enums_unify_to_matter) /\ m \notin enums_without_matter
      BY EnumLiteral, UnifyNamesApart DEF UnifySide, Keys
    <2>3. matter_enum_name(m) = m
      BY <2>2 DEF matter_enum_name
    <2>4. QED
      BY <2>1, <2>3
  <1>6. QED
    BY <1>2, <1>3, <1>4, <1>5

LEMMA MatterBitmapNames ==
  DOMAIN MatterBitmaps =
    DOMAIN MatterBitmaps1 \cup DOMAIN MatterBitmaps2 \cup DOMAIN MatterBitmaps3 \cup DOMAIN MatterBitmaps4
  BY DEF MatterBitmaps, ++

\* A Matter bitmap with the name of a Unify bitmap stands for it.
LEMMA BitmapNamesApart ==
  \A i \in 1 .. 38 :
    bitmaps_unify_to_matter[i][1] \in DOMAIN MatterBitmaps => bitmaps_unify_to_matter[i][2] = bitmaps_unify_to_matter[i][1]
  <1>1. \A i \in 1 .. 38 :
          bitmaps_unify_to_matter[i][1] \in DOMAIN MatterBitmaps1 =>
            bitmaps_unify_to_matter[i][2] = bitmaps_unify_to_matter[i][1]
    BY SMTT(60) DEF bitmaps_unify_to_matter, MatterBitmaps1
  <1>2. \A i \in 1 .. 38 : bitmaps_unify_to_matter[i][1] \notin DOMAIN MatterBitmaps2
    BY SMTT(60) DEF bitmaps_unify_to_matter, MatterBitmaps2
  <1>3. \A i \in 1 .. 38 : bitmaps_unify_to_matter[i][1] \notin DOMAIN MatterBitmaps3
    BY SMTT(60) DEF bitmaps_unify_to_matter, MatterBitmaps3
  <1>4. \A i \in 1 .. 38 : bitmaps_unify_to_matter[i][1] \notin DOMAIN MatterBitmaps4
    BY SMTT(60) DEF bitmaps_unify_to_matter, MatterBitmaps4
  <1>5. QED
    BY <1>1, <1>2, <1>3, <1>4, MatterBitmapNames

LEMMA BitmapRoundTrip ==
  ASSUME NEW m \in DOMAIN MatterBitmaps
  PROVE  LET u == unify_bitmap_name(m) IN unify_bitmap_name(matter_bitmap_name(u)) = u
  <1> DEFINE u == unify_bitmap_name(m)
             lit == bitmaps_unify_to_matter
  <1>1. \A k : Names(lit, <<>>, k) = {Value(lit, k)}
    BY DEF Names
  <1>2. CASE m \in DOMAIN ReverseBitmaps
    <2>1. u = ReverseBitmaps[m]
      BY <1>2 DEF unify_bitmap_name
    <2>2. u \in Keys(lit) /\ m \in Names(lit, <<>>, u)
      BY <1>2, <2>1, BitmapLiteral, ReverseTakesLast DEF ReverseBitmaps
    <2>3. matter_bitmap_name(u) = m
      BY <1>1, <2>2 DEF matter_bitmap_name
    <2>4. QED
      BY <2>3
  <1>3. CASE m \notin DOMAIN ReverseBitmaps
    <2>1. u = m
      BY <1>3 DEF unify_bitmap_name
    <2>2. m \notin Keys(lit)
      <3> SUFFICES ASSUME m \in Keys(lit) PROVE FALSE
        OBVIOUS
      <3>1. Value(lit, m) = m
        BY BitmapLiteral, BitmapNamesApart, ValueIsLast
      <3>2. m \in DOMAIN ReverseBitmaps
        BY <1>1, <3>1, ReverseDomain DEF ReverseBitmaps
      <3>3. QED
        BY <1>3, <3>2
    <2>3. QED
      BY <2>1, <2>2 DEF matter_bitmap_name
  <1>4. QED
    BY <1>2, <1>3

\* Translating a Matter type to Unify and back ends in the same Unify type
\* (unify_enum_name, matter_enum_name and their bitmap counterparts), at any time of a
\* generation.
THEOREM RoundTrips == Spec => []RoundTrip
  <1>1. IInv => RoundTrip
    <2> SUFFICES ASSUME IInv PROVE RoundTrip
      OBVIOUS
    <2>1. enums_matter_to_unify \in Table
      BY DEF IInv, TypeOK, Table
    <2>2. \A m : unify_enum_name(enums_matter_to_unify, m) = unify_enum_name(EmptyTable, m)
      BY <2>1, SameLookup
    <2>3. QED
      BY <2>2, EnumRoundTrip, BitmapRoundTrip DEF RoundTrip
  <1>2. QED
    BY <1>1, InvInit, InvNext, PTL DEF Spec

=============================================================================
