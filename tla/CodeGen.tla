------------------------------ MODULE CodeGen ------------------------------
(***************************************************************************)
(* The generator of the handlers, the attribute parsers and the enum       *)
(* converters: the helpers of linux/templates/mpc_support.js and           *)
(* mpc-helpers.js, the name tables of zap-common/unify_matter_mapping.js,  *)
(* and the five templates that call them.                                  *)
(*                                                                         *)
(* ZAP renders a template by walking the clusters of the Matter data model *)
(* in the order of their codes; one step visits one cluster.  The          *)
(* templates are rendered in an order that is ZAP's.  The table from       *)
(* Matter to Unify names is a global of the helpers and is filled by the   *)
(* first look-up that gets as far as it.                                   *)
(*                                                                         *)
(* What is generated is a set of tuples: the text around them is left out. *)
(***************************************************************************)
EXTENDS SupportModel, Integers, Sequences, FiniteSetsExt

VARIABLES
  enums_matter_to_unify,  \* the lazily filled table; empty at first
  pos,                    \* of each template, the clusters visited so far
  out                     \* of each template, what has been generated

vars == <<enums_matter_to_unify, pos, out>>

(***************************************************************************)
(* Object literals.  A literal is the sequence of its <<key, value>>       *)
(* entries; of a repeated key JavaScript keeps the first place and the     *)
(* last value.                                                             *)
(***************************************************************************)
Keys(lit) == {lit[i][1] : i \in DOMAIN lit}
Place(lit, k) == Min({i \in DOMAIN lit : lit[i][1] = k})
Value(lit, k) == lit[Max({i \in DOMAIN lit : lit[i][1] = k})][2]

(***************************************************************************)
(* The name tables.  Entries whose Matter name is "" never get into the    *)
(* reverse table; for the enumerations their keys are enums_without_matter.*)
(* The array ["MoveMode", "StepMode"] of MoveStepMode is its first element *)
(* here and its second in enums_second_name.                               *)
(***************************************************************************)
bitmaps_unify_to_matter ==
  <<<<"BallastConfigurationBallastStatus", "BallastStatus">>,
    <<"BarrierControlCapabilities", "BarrierControlCapabilities">>,
    <<"BarrierControlSafetyStatus", "BarrierControlSafetyStatus">>, <<"BasicAlarmMask", "AlarmMask">>,
    <<"BatteryAlarmMask", "BatteryAlarmMask">>, <<"CCColorOptions", "ColorControlOptions">>,
    <<"CCStepMode", "SaturationStepMode">>, <<"CCMoveMode", "SaturationMoveMode">>,
    <<"ColorControlColorCapabilities", "ColorCapabilities">>, <<"ColorLoopSetUpdateFlags", "ColorLoopUpdateFlags">>,
    <<"CopySceneMode", "ScenesCopyMode">>,
    <<"DeviceTemperatureConfigurationDeviceTempAlarmMask", "DeviceTempAlarmMask">>,
    <<"DoorLockDefaultConfigurationRegister", "DlDefaultConfigurationRegister">>,
    <<"DoorLockKeypadOperationEventMask", "DlKeypadOperationEventMask">>,
    <<"DoorLockKeypadProgrammingEventMask", "DlKeypadProgrammingEventMask">>,
    <<"DoorLockManualOperationEventMask", "DlManualOperationEventMask">>,
    <<"DoorLockRFIDOperationEventMask", "DlRFIDOperationEventMask">>,
    <<"DoorLockRFIDProgrammingEventMask", "DlRFIDProgrammingEventMask">>,
    <<"DoorLockRFOperationEventMask", "DlRemoteOperationEventMask">>,
    <<"DoorLockRFProgrammingEventMask", "DlRemoteProgrammingEventMask">>,
    <<"DoorLockSupportedOperatingModes", "DlSupportedOperatingModes">>, <<"DrlkDaysMask", "DaysMaskMap">>,
    <<"IasZoneStatus", "IasZoneStatus">>, <<"LevelOptions", "LevelControlOptions">>,
    <<"OccupancySensingOccupancy", "OccupancyBitmap">>,
    <<"OccupancySensingOccupancySensorTypeBitmap", "OccupancySensorTypeBitmap">>,
    <<"OnWithTimedOffOnOffControl", "OnOffControl">>, <<"PowerConfigurationMainsAlarmMask", "MainsAlarmMask">>,
    <<"PumpConfigurationAndControlPumpStatus", "PumpStatus">>, <<"ThermostatAlarmMask", "ThermostatAlarmMask">>,
    <<"ThermostatOccupancy", "ThermostatOccupancy">>, <<"ThermostatRemoteSensing", "ThermostatSensing">>,
    <<"ThermostatThermostatRunningState", "ThermostatRunningState">>, <<"TimeTimeStatus", "TimeStatusMask">>,
    <<"TstatScheduleDOW", "DayOfWeek">>, <<"TstatScheduleMode", "ModeForSequence">>,
    <<"WindowCoveringConfigOrStatus", "ConfigStatus">>, <<"WindowCoveringMode", "Mode">>>>

enums_unify_to_matter ==
  <<<<"BarrierControlMovingState", "BarrierControlMovingState">>, <<"BasicPowerSource", "PowerSource">>,
    <<"BatterySize", "BatterySize">>, <<"CCColorLoopDirection", "ColorLoopDirection">>,
    <<"CCDirection", "HueDirection">>, <<"CCMoveMode", "HueMoveMode">>, <<"CCStepMode", "HueStepMode">>,
    <<"ColorControlColorMode", "ColorMode">>, <<"ColorControlEnhancedColorMode", "EnhancedColorMode">>,
    <<"ColorLoopSetAction", "ColorLoopAction">>,
    <<"DehumidificationControlDehumidificationLockout", "DehumidifcationLockout">>,
    <<"DehumidificationControlRelativeHumidityDisplay", "RelativeHumidityDisplay">>,
    <<"DehumidificationControlRelativeHumidityMode", "RelativeHumidityMode">>,
    <<"DoorLockDoorState", "DoorStateEnum">>, <<"DoorLockLockState", "DlLockState">>,
    <<"DoorLockLockType", "DlLockType">>, <<"DoorLockSecurityLevel", "DoorLockSecurityLevel">>,
    <<"DoorLockSoundVolume", "DoorLockSoundVolume">>, <<"DrlkOperEventSource", "DoorLockEventSource">>,
    <<"DrlkOperMode", "DoorLockOperatingMode">>, <<"DrlkSetCodeStatus", "DoorLockSetPinOrIdStatus">>,
    <<"DrlkUserStatus", "DoorLockUserStatus">>, <<"DrlkUserType", "DoorLockUserType">>,
    <<"FanControlFanMode", "FanModeType">>, <<"FanControlFanModeSequence", "FanModeSequence">>,
    <<"GetLogRecordResponseEventType", "DoorLockEventType">>,
    <<"IlluminanceLevelSensingLevelStatus", "LevelStatus">>,
    <<"IlluminanceLevelSensingLightSensorType", "LightSensorType">>,
    <<"IlluminanceMeasurementLightSensorType", "LightSensorType">>, <<"MoveStepMode", "MoveMode">>,
    <<"OccupancySensingOccupancySensorType", "OccupancySensorTypeEnum">>,
    <<"OffWithEffectEffectIdentifier", "OnOff::EffectIdentifierEnum">>,
    <<"TriggerEffectEffectIdentifier", "Identify::EffectIdentifierEnum">>,
    <<"OnOffStartUpOnOff", "StartUpOnOffEnum">>,
    <<"OperatingEventNotificationOperationEventCode", "DoorLockOperationEventCode">>,
    <<"ProgrammingEventNotificationProgramEventCode", "DoorLockProgrammingEventCode">>,
    <<"ProgrammingEventNotificationProgramEventSource", "DoorLockEventSource">>,
    <<"PumpControlMode", "PumpControlMode">>, <<"PumpOperationMode", "PumpOperationMode">>,
    <<"SetpointRaiseOrLowerMode", "SetpointAdjustMode">>, <<"ShadeConfigurationMode", "OperatingMode">>,
    <<"SirenConfigurationStrobe", "SquawkStobe">>, <<"SirenConfigurationWarningMode", "WarningMode">>,
    <<"SquawkConfigurationSquawkMode", "SquawkMode">>,
    <<"ThermostatControlSequenceOfOperation", "ControlSequenceOfOperationEnum">>,
    <<"ThermostatStartOfWeek", "StartOfWeek">>, <<"ThermostatSystemMode", "SystemModeEnum">>,
    <<"ThermostatTemperatureSetpointHold", "TemperatureSetpointHold">>,
    <<"ThermostatThermostatRunningMode", "ThermostatRunningMode">>,
    <<"ThermostatUserInterfaceConfigurationKeypadLockout", "KeypadLockout">>,
    <<"ThermostatUserInterfaceConfigurationTemperatureDisplayMode", "TemperatureDisplayMode">>,
    <<"TriggerEffectEffectIdentifier", "IdentifyEffectIdentifier">>,
    <<"TriggerEffectEffectVariant", "IdentifyEffectVariant">>, <<"WindowCoveringWindowCoveringType", "Type">>,
    <<"zclStatus", "Status">>>>

enums_without_matter ==
  {"ArmArmMode", "ArmResponseArmNotification", "AttributeReportingStatus", "BasicGenericDevice-Class",
   "BasicGenericDevice-Type", "BasicPhysicalEnvironment", "BypassResponseZoneIDBypassResult",
   "ColorControlColorLoopActive", "ColorControlDriftCompensation", "CommissioningNetworkKeyType",
   "CommissioningProtocolVersion", "CommissioningStackProfile", "CommissioningStartupControl",
   "DoorLockLEDSettings", "DrlkPassFailStatus", "DrlkSettableUserStatus", "GetMeasurementProfileResponseStatus",
   "HVACSystemTypeConfigurationCoolingSystemStage", "HVACSystemTypeConfigurationHeatingFuelSource",
   "HVACSystemTypeConfigurationHeatingSystemStage", "HVACSystemTypeConfigurationHeatingSystemType",
   "IASZoneZoneState", "IasZoneType", "IasacPanelStatus", "IasaceAlarmStatus", "IasaceAudibleNotification",
   "IaswdLevel", "ImageNotifyPayloadType", "OTADeviceSpecificImageType", "OTAUpgradeImageUpgradeStatus",
   "OTAUpgradeUpgradeActivationPolicy", "OTAUpgradeUpgradeTimeoutPolicy", "OptionsStartupMode",
   "ProfileIntervalPeriod", "SHDCFGDirection", "TLKeyIndex", "TLStatus", "TLZigbeeInformationLogicalType",
   "ThermostatACCapacityFormat", "ThermostatACCompressorType", "ThermostatACLouverPosition",
   "ThermostatACRefrigerantType", "ThermostatACType", "ThermostatProgrammingOperationModeProgrammingMode",
   "ThermostatSetpointChangeSource", "ThermostatUserInterfaceConfigurationScheduleProgrammingVisibility",
   "ZoneEnrollResponseEnrollResponseCode", "attributeReportingStatus", "reportingRole", "zclType"}
enums_second_name == <<<<"MoveStepMode", "StepMode">>>>

(***************************************************************************)
(* The reverse table: the keys are taken in order and a later key replaces *)
(* an earlier one with the same Matter name.                               *)
(***************************************************************************)
Reverse(lit, second) ==
  LET Names(k) == {Value(lit, k)} \cup {second[i][2] : i \in {j \in DOMAIN second : second[j][1] = k}}
  IN  [m \in UNION {Names(k) : k \in Keys(lit)} |->
         CHOOSE k \in Keys(lit) :
            /\ m \in Names(k)
            /\ \A j \in Keys(lit) : m \in Names(j) => Place(lit, j) <= Place(lit, k)]

ReverseEnums == Reverse(enums_unify_to_matter, enums_second_name)
ReverseBitmaps == Reverse(bitmaps_unify_to_matter, <<>>)

EmptyTable == [m \in {} |-> ""]

\* Mutant of Filled: of an array of Matter names only the first is entered.
FilledFirstNames(t) == IF DOMAIN t = {} THEN Reverse(enums_unify_to_matter, <<>>) ELSE t

\* The table as a look-up leaves it.
Filled(t) == IF DOMAIN t = {} THEN ReverseEnums ELSE t

\* Mutant of unify_enum_name: the table is read before it is filled.
UnifyEnumNameUnfilled(t, m) ==
  CASE m = "SaturationMoveMode" -> "CCMoveMode"
    [] m = "SaturationStepMode" -> "CCStepMode"
    [] OTHER -> IF m \in DOMAIN t THEN t[m] ELSE m

\* The Unify name of the Matter enumeration m, looked up in table t.
unify_enum_name(t, m) ==
  CASE m = "SaturationMoveMode" -> "CCMoveMode"
    [] m = "SaturationStepMode" -> "CCStepMode"
    [] OTHER -> LET table == Filled(t) IN IF m \in DOMAIN table THEN table[m] ELSE m

unify_bitmap_name(m) == IF m \in DOMAIN ReverseBitmaps THEN ReverseBitmaps[m] ELSE m

\* Mutant of matter_enum_name: a name that is in no table is lost.
MatterEnumNameStrict(u) ==
  IF u \in Keys(enums_unify_to_matter) THEN Value(enums_unify_to_matter, u) ELSE ""

\* The test for "" looks at the entry of a function name, never ""; a name
\* without a Matter counterpart is therefore translated to "".
matter_enum_name(u) ==
  CASE u \in Keys(enums_unify_to_matter) -> Value(enums_unify_to_matter, u)
    [] u \in enums_without_matter -> ""
    [] OTHER -> u

matter_bitmap_name(u) == IF u \in Keys(bitmaps_unify_to_matter) THEN Value(bitmaps_unify_to_matter, u) ELSE u

-----------------------------------------------------------------------------
(***************************************************************************)
(* mpc_support.js.  The cluster-qualified name "<cluster>::<enum>" is a    *)
(* table entry of its own; the only ones in use are Qualified's.           *)
(***************************************************************************)
Qualified(cluster, m) ==
  CASE <<cluster, m>> = <<"OnOff", "EffectIdentifierEnum">> -> "OnOff::EffectIdentifierEnum"
    [] <<cluster, m>> = <<"Identify", "EffectIdentifierEnum">> -> "Identify::EffectIdentifierEnum"
    [] OTHER -> "::"

IsUnifyEnum(u) == u \in DOMAIN UnifyEnums

matterUnifyEnumMapped(t, m, cluster) ==
  \/ IsUnifyEnum(unify_enum_name(t, m))
  \/ IsUnifyEnum(unify_enum_name(t, Qualified(cluster, m)))

unifyEnumType(t, m, cluster) ==
  LET plain == unify_enum_name(t, m)
      qualified == unify_enum_name(t, Qualified(cluster, m))
  IN  CASE IsUnifyEnum(plain) -> plain
        [] ~IsUnifyEnum(plain) /\ IsUnifyEnum(qualified) -> qualified
        [] OTHER -> m

\* JavaScript's undefined, for an item or a mask that does not exist, and an
\* item that keeps its Matter label.
Undefined == -1
MatterLabel == -2

\* Mutant of Item: one item too many.
ItemInclusive(u, i) == IF i <= UnifyEnums[u] THEN i ELSE Undefined

\* The i-th item of Unify enumeration u; items are numbered from 0.
Item(u, i) == IF i < UnifyEnums[u] THEN i ELSE Undefined

\* Mutant of unifyEnumValName: items are counted from 1.
UnifyEnumValNameFromOne(t, m, i, cluster) ==
  IF matterUnifyEnumMapped(t, m, cluster) THEN Item(unifyEnumType(t, m, cluster), i + 1) ELSE MatterLabel

\* The Unify item the i-th item of Matter enumeration m becomes.
unifyEnumValName(t, m, i, cluster) ==
  IF matterUnifyEnumMapped(t, m, cluster) THEN Item(unifyEnumType(t, m, cluster), i) ELSE MatterLabel

\* The Unify item of kUnknownEnumValue; i is the last Matter item.  Only the
\* unqualified name is tried.
unknownEnumValue(t, m, i) ==
  LET u == unify_enum_name(t, m) IN IF IsUnifyEnum(u) THEN Item(u, i + 1) ELSE Undefined

checkUnknownEnumValue(t, m, i) == unknownEnumValue(t, m, i) # Undefined

unifyBitmapValName(m, mask) ==
  LET u == unify_bitmap_name(m)
  IN  IF u \notin DOMAIN UnifyBitmaps THEN MatterLabel
      ELSE IF mask \in UnifyBitmaps[u] THEN mask ELSE Undefined

unifyTypeExists(m) == m \notin {"DelayedAllOffEffectVariantEnum", "DyingLightEffectVariantEnum"}

-----------------------------------------------------------------------------
(***************************************************************************)
(* mpc-helpers.js.                                                         *)
(***************************************************************************)
OnOff == 6
Descriptor == 29

supportedClusterByMpc(code) == code \in {OnOff, Descriptor}

isCommandHandlingRequired(code) == code # Descriptor

\* Mutant of supportedAttributes: ServerList is missing.
SupportedAttributesShort(code, attribute) ==
  attribute \in IF code = OnOff THEN {0} \cup 16384..16387 \cup {65528, 65529, 65531, 65532, 65533} ELSE {0, 2, 3}

supportedAttributes(code, attribute) ==
  CASE code = OnOff -> attribute \in {0} \cup 16384..16387 \cup {65528, 65529, 65531, 65532, 65533}
    [] code = Descriptor -> attribute \in 0..3
    [] OTHER -> FALSE

isProcessingRequired(code, attribute) ==
  CASE code = OnOff -> attribute \in {65529, 65531}
    [] code = Descriptor -> attribute \in {1, 3}
    [] OTHER -> FALSE

isUnifyEnumNameDifferent(type) == type \in {"EffectIdentifierEnum", "MoveModeEnum", "StepModeEnum"}

\* Mutant of unifyEnumName: the wrong effect enumeration.
UnifyEnumNameTrigger(type) == "TriggerEffectEffectIdentifier"

unifyEnumName(type) ==
  CASE type = "EffectIdentifierEnum" -> "OffWithEffectEffectIdentifier"
    [] type \in {"MoveModeEnum", "StepModeEnum"} -> "MoveStepMode"
    [] OTHER -> type

\* "On/Off" without its slash names the cluster in the qualified enum names.
clusterNameWithoutSlash(code) == CASE code = OnOff -> "OnOff" [] code = Descriptor -> "Descriptor" [] OTHER -> ""

-----------------------------------------------------------------------------
(***************************************************************************)
(* The parts of the Matter data model ZAP gives the templates for the      *)
(* supported clusters: their server attributes, their commands, the enum   *)
(* types of the commands' arguments, and their enumerations.               *)
(***************************************************************************)
OnOffAttributes == {0} \cup 16384..16387 \cup 65528..65533
OnOffCommands == {0, 1, 2, 64, 65, 66}
DescriptorAttributes == 0..4 \cup 65528..65533

zcl_attributes_server(code) ==
  CASE code = OnOff -> OnOffAttributes [] code = Descriptor -> DescriptorAttributes [] OTHER -> {}
zcl_commands(code) == IF code = OnOff THEN OnOffCommands ELSE {}
zcl_command_enums(code) == IF code = OnOff THEN {<<64, "EffectIdentifierEnum">>} ELSE {}

\* Enumeration names and numbers of items.
zcl_enums(code) ==
  IF code = OnOff
  THEN {<<"DelayedAllOffEffectVariantEnum", 3>>, <<"DyingLightEffectVariantEnum", 1>>,
        <<"EffectIdentifierEnum", 2>>, <<"StartUpOnOffEnum", 3>>}
  ELSE {}

(***************************************************************************)
(* What each template generates for a supported cluster.                   *)
(***************************************************************************)
Templates == {"dotdot_mqtt_to_matter.cpp", "dotdot_mqtt_to_matter.hpp", "mpc_attribute_cluster_parser.h",
              "mpc_attribute_cluster_parser.cpp", "matter_to_unify_converter.hpp"}

\* The command callbacks with the Unify types of their enum arguments, and the
\* function that registers them.
Handlers(code) ==
  IF ~isCommandHandlingRequired(code) THEN {}
  ELSE {<<"command", code, c>> : c \in zcl_commands(code)}
       \cup {<<"argument", code, a[1], IF isUnifyEnumNameDifferent(a[2]) THEN unifyEnumName(a[2]) ELSE a[2]>> :
               a \in zcl_command_enums(code)}
       \cup {<<"init", code>>}

HandlersHeader(code) == IF isCommandHandlingRequired(code) THEN {<<"init", code>>} ELSE {}

ParserHeader(code) == {<<"parser", code>>}

\* A case of the parser's switch, with the function each list entry is given to.
Parser(code) ==
  {<<"parser", code>>}
  \cup {<<"case", code, a, isProcessingRequired(code, a)>> :
          a \in {x \in zcl_attributes_server(code) : supportedAttributes(code, x)}}

\* The conversion of one enumeration with n items: a cast where Unify has no
\* such type, a switch over the items otherwise.
ConvertEnum(t, code, m, n) ==
  LET cluster == clusterNameWithoutSlash(code)
      type == unifyEnumType(t, m, cluster)
  IN  IF ~unifyTypeExists(m)
      THEN {<<"cast", code, m>>}
      ELSE {<<"item", code, m, i, type, unifyEnumValName(t, m, i, cluster)>> : i \in 0..(n - 1)}
           \cup IF checkUnknownEnumValue(t, m, n - 1)
                THEN {<<"item", code, m, n, type, unknownEnumValue(t, m, n - 1)>>} ELSE {}

Converter(t, code) == UNION {ConvertEnum(t, code, e[1], e[2]) : e \in zcl_enums(code)}

Generated(f, t, code) ==
  CASE f = "dotdot_mqtt_to_matter.cpp" -> Handlers(code)
    [] f = "dotdot_mqtt_to_matter.hpp" -> HandlersHeader(code)
    [] f = "mpc_attribute_cluster_parser.h" -> ParserHeader(code)
    [] f = "mpc_attribute_cluster_parser.cpp" -> Parser(code)
    [] f = "matter_to_unify_converter.hpp" -> Converter(t, code)

-----------------------------------------------------------------------------
Init ==
  /\ enums_matter_to_unify = EmptyTable
  /\ pos = [f \in Templates |-> 0]
  /\ out = [f \in Templates |-> {}]

Last == Len(MatterClusters)

\* Template f is rendered for its next cluster; no other is half done.
VisitCluster(f) ==
  LET code == MatterClusters[pos[f] + 1]
      t == enums_matter_to_unify
  IN  /\ pos[f] < Last
      /\ \A g \in Templates \ {f} : pos[g] \in {0, Last}
      /\ pos' = [pos EXCEPT ![f] = @ + 1]
      /\ IF supportedClusterByMpc(code)
         THEN /\ out' = [out EXCEPT ![f] = @ \cup Generated(f, t, code)]
              /\ enums_matter_to_unify' =
                   IF f = "matter_to_unify_converter.hpp" /\ zcl_enums(code) # {} THEN Filled(t) ELSE t
         ELSE UNCHANGED <<out, enums_matter_to_unify>>

Next == \E f \in Templates : VisitCluster(f)

Spec == Init /\ [][Next]_vars /\ WF_vars(Next)

-----------------------------------------------------------------------------
(***************************************************************************)
(* The generated files as they are checked in.                             *)
(***************************************************************************)
HandlersFile ==
  {<<"command", OnOff, c>> : c \in {0, 1, 2, 64, 65, 66}}
  \cup {<<"argument", OnOff, 64, "OffWithEffectEffectIdentifier">>, <<"init", OnOff>>}

HandlersHeaderFile == {<<"init", OnOff>>}

ParserHeaderFile == {<<"parser", OnOff>>, <<"parser", Descriptor>>}

ParserFile ==
  {<<"parser", OnOff>>, <<"parser", Descriptor>>}
  \cup {<<"case", OnOff, a, FALSE>> : a \in {0, 16384, 16385, 16386, 16387, 65528, 65532, 65533}}
  \cup {<<"case", OnOff, a, TRUE>> : a \in {65529, 65531}}
  \cup {<<"case", Descriptor, a, FALSE>> : a \in {0, 2}} \cup {<<"case", Descriptor, a, TRUE>> : a \in {1, 3}}

ConverterFile ==
  {<<"cast", OnOff, "DelayedAllOffEffectVariantEnum">>, <<"cast", OnOff, "DyingLightEffectVariantEnum">>,
   <<"item", OnOff, "EffectIdentifierEnum", 0, "OffWithEffectEffectIdentifier", 0>>,
   <<"item", OnOff, "EffectIdentifierEnum", 1, "OffWithEffectEffectIdentifier", 1>>,
   <<"item", OnOff, "StartUpOnOffEnum", 0, "OnOffStartUpOnOff", 0>>,
   <<"item", OnOff, "StartUpOnOffEnum", 1, "OnOffStartUpOnOff", 1>>,
   <<"item", OnOff, "StartUpOnOffEnum", 2, "OnOffStartUpOnOff", 2>>,
   <<"item", OnOff, "StartUpOnOffEnum", 3, "OnOffStartUpOnOff", 3>>}

CheckedIn(f) ==
  CASE f = "dotdot_mqtt_to_matter.cpp" -> HandlersFile
    [] f = "dotdot_mqtt_to_matter.hpp" -> HandlersHeaderFile
    [] f = "mpc_attribute_cluster_parser.h" -> ParserHeaderFile
    [] f = "mpc_attribute_cluster_parser.cpp" -> ParserFile
    [] f = "matter_to_unify_converter.hpp" -> ConverterFile

\* The hand-written side of the resolver: the attributes with a rule, and the
\* clusters with a registered parser.
ResolverRules ==
  {<<Descriptor, a>> : a \in 0..3}
  \cup {<<OnOff, a>> : a \in {65528, 65529, 65531, 65532, 65533} \cup {0} \cup 16384..16387}
RegisteredParsers == {Descriptor, OnOff}

Rendered(f) == pos[f] = Last

-----------------------------------------------------------------------------
(***************************************************************************)
(* Properties.                                                             *)
(***************************************************************************)
TypeOK ==
  /\ enums_matter_to_unify \in {EmptyTable, ReverseEnums}
  /\ pos \in [Templates -> 0..Last]
  /\ DOMAIN out = Templates

\* Generating again changes nothing: in whatever order ZAP takes the templates,
\* each checked-in handler file is what its template and the helpers produce.
UpToDate == \A f \in Templates : Rendered(f) => out[f] = CheckedIn(f)

\* The generated C++ names only things that exist: every item of a converted
\* enumeration has a Unify item (no ZCL_..._UNDEFINED), of a type Unify has,
\* and a command argument has the very type the converter gives the attribute.
Compiles ==
  LET t == enums_matter_to_unify
  IN  /\ \A x \in out["matter_to_unify_converter.hpp"] :
            x[1] = "item" => IsUnifyEnum(x[5]) /\ x[6] \in 0..(UnifyEnums[x[5]] - 1)
      /\ \A x \in out["dotdot_mqtt_to_matter.cpp"] :
            x[1] = "argument" =>
              \E a \in zcl_command_enums(x[2]) :
                a[1] = x[3] /\ x[4] = unifyEnumType(t, a[2], clusterNameWithoutSlash(x[2]))

\* The interview has no gap between generated and hand-written code: exactly the
\* attributes with a resolver rule have a case in a parser (one without would be
\* read again and again and never be reported), and exactly the clusters with a
\* generated parser have it registered.
InterviewWired ==
  /\ Rendered("mpc_attribute_cluster_parser.cpp") =>
       {<<x[2], x[3]>> : x \in {y \in out["mpc_attribute_cluster_parser.cpp"] : y[1] = "case"}} = ResolverRules
  /\ Rendered("mpc_attribute_cluster_parser.h") =>
       {x[2] : x \in out["mpc_attribute_cluster_parser.h"]} = RegisteredParsers

\* Which clusters can be switched on as the tables stand: of all enumerations
\* and bitmaps of the Matter model only these have an item or a mask without a
\* counterpart in the Unify type their name is translated to.
KnownShortfalls ==
  LET t == enums_matter_to_unify
  IN  /\ {m \in DOMAIN MatterEnums :
            LET u == unify_enum_name(t, m) IN IsUnifyEnum(u) /\ Item(u, MatterEnums[m] - 1) = Undefined}
           = {"CredentialTypeEnum", "Type"}
      /\ {m \in DOMAIN MatterBitmaps : \E mask \in MatterBitmaps[m] : unifyBitmapValName(m, mask) = Undefined}
           = {"DlRemoteProgrammingEventMask"}

\* Translating there and back ends in the same Unify type, for every type of
\* the Matter model that has one.
RoundTrip ==
  LET t == enums_matter_to_unify
  IN  /\ \A m \in DOMAIN MatterEnums :
           LET u == unify_enum_name(t, m) IN IsUnifyEnum(u) => unify_enum_name(t, matter_enum_name(u)) = u
      /\ \A m \in DOMAIN MatterBitmaps :
           LET u == unify_bitmap_name(m)
           IN  u \in DOMAIN UnifyBitmaps => unify_bitmap_name(matter_bitmap_name(u)) = u

\* The answer of a look-up does not depend on what was rendered before it,
\* although the first one fills the table.
StableLookup ==
  [][\A m \in DOMAIN MatterEnums :
       unify_enum_name(enums_matter_to_unify', m) = unify_enum_name(enums_matter_to_unify, m)]_vars

=============================================================================
