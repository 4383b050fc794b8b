---------------------------- MODULE SupportModel ----------------------------
(***************************************************************************)
(* The data models of Unify and of Matter from which the code generator    *)
(* works: linux/zap-generated/data-models/unify_support_model.js and       *)
(* matter_support_model.js.                                                *)
(*                                                                         *)
(* An enumeration is the number of its items: the generator selects an     *)
(* item by its position alone (0, 1, ...).  A bitmap is the set of its     *)
(* masks.  Of a name that occurs twice in the object literal (clusters     *)
(* share type names) JavaScript keeps the last occurrence, and so do the   *)
(* tables.                                                                 *)
(***************************************************************************)
EXTENDS Integers

\* The tables are written in parts: f, and g where f has no value.
f ++ g == [x \in DOMAIN f \cup DOMAIN g |-> IF x \in DOMAIN f THEN f[x] ELSE g[x]]

Bits(n) == {2^i : i \in 0..(n - 1)}

\* The mask 2^n where that is beyond TLC's integers.
HighBit(n) == -n

(***************************************************************************)
(* The enumerations of the Unify model, by name.                           *)
(***************************************************************************)
UnifyEnums1 ==
  [AoXLocatorAntennaMode |-> 6, AoXLocatorAoXMode |-> 10, AoXLocatorCTEMode |-> 3, AoXLocatorReportingMode |-> 2,
   ArmArmMode |-> 4, ArmResponseArmNotification |-> 7, BarrierControlMovingState |-> 3,
   BasicGenericDeviceClass |-> 1, BasicGenericDeviceType |-> 23]
UnifyEnums2 ==
  [BasicPhysicalEnvironment |-> 109, BasicPowerSource |-> 14, BatterySize |-> 10,
   BypassResponseZoneIDBypassResult |-> 6]
UnifyEnums3 ==
  [CCColorLoopDirection |-> 2, CCDirection |-> 4, CCMoveMode |-> 3, CCStepMode |-> 2,
   ColorControlColorLoopActive |-> 2, ColorControlColorMode |-> 3, ColorControlDriftCompensation |-> 5,
   ColorControlEnhancedColorMode |-> 4, ColorLoopSetAction |-> 3, CommissioningNetworkKeyType |-> 1,
   CommissioningProtocolVersion |-> 1, CommissioningStackProfile |-> 2, CommissioningStartupControl |-> 4,
   CredentialRuleEnum |-> 3, CredentialTypeEnum |-> 6, DataOperationTypeEnum |-> 3,
   DehumidificationControlDehumidificationLockout |-> 2, DehumidificationControlRelativeHumidityDisplay |-> 2,
   DehumidificationControlRelativeHumidityMode |-> 2, DevTypeId |-> 29, DoorLockDoorState |-> 7,
   DoorLockLEDSettings |-> 3, DoorLockLockState |-> 5]
UnifyEnums4 ==
  [DoorLockLockType |-> 12, DoorLockSecurityLevel |-> 2, DoorLockSoundVolume |-> 4, DrlkOperEventSource |-> 5,
   DrlkOperMode |-> 5, DrlkPassFailStatus |-> 2, DrlkSetCodeStatus |-> 4, DrlkSettableUserStatus |-> 2,
   DrlkUserStatus |-> 4, DrlkUserType |-> 11, FanControlFanMode |-> 7, FanControlFanModeSequence |-> 5,
   GetLogRecordResponseEventType |-> 3, GetMeasurementProfileResponseStatus |-> 5,
   HVACSystemTypeConfigurationCoolingSystemStage |-> 3, HVACSystemTypeConfigurationHeatingFuelSource |-> 2,
   HVACSystemTypeConfigurationHeatingSystemStage |-> 3, HVACSystemTypeConfigurationHeatingSystemType |-> 2,
   IASZoneZoneState |-> 2, IasZoneType |-> 16]
UnifyEnums5 ==
  [IasacPanelStatus |-> 11, IasaceAlarmStatus |-> 7, IasaceAudibleNotification |-> 2, IaswdLevel |-> 4,
   IlluminanceLevelSensingLevelStatus |-> 3, IlluminanceLevelSensingLightSensorType |-> 3,
   IlluminanceMeasurementLightSensorType |-> 3, ImageNotifyPayloadType |-> 4, LoggingLevelEnum |-> 5,
   MeteringEnergyCarrierUnitOfMeasure |-> 13, MeteringMeteringDeviceType |-> 13, MeteringSupplyStatus |-> 3,
   MeteringTemperatureUnitOfMeasure |-> 3, MeteringUnitofMeasure |-> 13, MoveStepMode |-> 2, NmState |-> 9,
   NodeStateNetworkStatus |-> 6, NodeStateSecurity |-> 7]
UnifyEnums6 ==
  [OTADeviceSpecificImageType |-> 4, OTAUpgradeImageUpgradeStatus |-> 7, OTAUpgradeUpgradeActivationPolicy |-> 2,
   OTAUpgradeUpgradeTimeoutPolicy |-> 2, OccupancySensingOccupancySensorType |-> 4,
   OffWithEffectEffectIdentifier |-> 2, OnOffStartUpOnOff |-> 4,
   OperatingEventNotificationOperationEventCode |-> 16, OptionsStartupMode |-> 2, ProfileIntervalPeriod |-> 8,
   ProgrammingEventNotificationProgramEventCode |-> 7, ProgrammingEventNotificationProgramEventSource |-> 4,
   PumpControlMode |-> 6, PumpOperationMode |-> 4, SHDCFGDirection |-> 2, SetpointRaiseOrLowerMode |-> 3,
   ShadeConfigurationMode |-> 2, SirenConfigurationStrobe |-> 2, SirenConfigurationWarningMode |-> 7,
   SquawkConfigurationSquawkMode |-> 2, ThermostatACCapacityFormat |-> 1, ThermostatACCompressorType |-> 3,
   ThermostatACLouverPosition |-> 5, ThermostatACRefrigerantType |-> 3]
UnifyEnums7 ==
  [ThermostatACType |-> 4, ThermostatControlSequenceOfOperation |-> 6,
   ThermostatProgrammingOperationModeProgrammingMode |-> 2, ThermostatSetpointChangeSource |-> 3,
   ThermostatStartOfWeek |-> 7, ThermostatSystemMode |-> 9, ThermostatTemperatureSetpointHold |-> 2,
   ThermostatThermostatRunningMode |-> 3, ThermostatUserInterfaceConfigurationKeypadLockout |-> 6,
   ThermostatUserInterfaceConfigurationScheduleProgrammingVisibility |-> 2,
   ThermostatUserInterfaceConfigurationTemperatureDisplayMode |-> 2, TriggerEffectEffectIdentifier |-> 6,
   TriggerEffectEffectVariant |-> 1, TxReportTransmissionSpeed |-> 6, WindowCoveringWindowCoveringType |-> 10,
   ZoneEnrollResponseEnrollResponseCode |-> 4, AttributeReportingStatus |-> 2, ZclStatus |-> 35]
UnifyEnums8 ==
  [ZclType |-> 57]
UnifyEnums ==
  UnifyEnums1 ++ UnifyEnums2 ++ UnifyEnums3 ++ UnifyEnums4 ++ UnifyEnums5 ++ UnifyEnums6 ++
  UnifyEnums7 ++ UnifyEnums8

(***************************************************************************)
(* The bitmaps of the Unify model, by name.                                *)
(***************************************************************************)
UnifyBitmaps1 ==
  [BallastConfigurationBallastStatus |-> Bits(2), BallastConfigurationLampAlarmMode |-> Bits(1),
   BarrierControlCapabilities |-> Bits(1), BarrierControlSafetyStatus |-> Bits(4), BasicAlarmMask |-> Bits(2),
   BasicDisableLocalConfig |-> Bits(2), BatteryAlarmMask |-> Bits(4),
   BatteryAlarmState |-> {1, 2, 4, 8, 1024, 2048, 4096, 8192, 1048576, 2097152, 4194304, 8388608, 1073741824},
   CCColorOptions |-> Bits(1), ColorControlColorCapabilities |-> Bits(5), ColorLoopSetUpdateFlags |-> Bits(4),
   CopySceneMode |-> Bits(1), DeviceTemperatureConfigurationDeviceTempAlarmMask |-> Bits(2),
   DoorLockAlarmMask |-> {1, 2, 8, 16, 32, 64}, DoorLockCredentialRulesSupport |-> Bits(3),
   DoorLockDefaultConfigurationRegister |-> {1, 2, 4, 32, 64, 128}, DoorLockFeatureMap |-> Bits(13),
   DoorLockKeypadOperationEventMask |-> Bits(8), DoorLockKeypadProgrammingEventMask |-> Bits(5),
   DoorLockLocalProgrammingFeatures |-> Bits(4), DoorLockManualOperationEventMask |-> Bits(11),
   DoorLockRFIDOperationEventMask |-> Bits(7)]
UnifyBitmaps2 ==
  [DoorLockRFIDProgrammingEventMask |-> {1, 32, 64}, DoorLockRFOperationEventMask |-> Bits(7),
   DoorLockRFProgrammingEventMask |-> {1, 4, 8, 16, 32, 64}, DoorLockSupportedOperatingModes |-> Bits(5),
   DrlkDaysMask |-> Bits(8), ElectricalMeasurementACAlarmsMask |-> Bits(10),
   ElectricalMeasurementDCOverloadAlarmsMask |-> Bits(2), ElectricalMeasurementMeasurementType |-> Bits(9),
   GroupsNameSupport |-> {128}, IasZoneStatus |-> Bits(10), ImageBlockRequestFieldControl |-> Bits(2),
   ImagePageRequestFieldControl |-> Bits(1), LevelOptions |-> Bits(2), MeteringDemandFormatting |-> {1, 30, 224},
   MeteringEnergyCarrierDemandFormatting |-> {1, 30, 224},
   MeteringEnergyCarrierSummationFormatting |-> {1, 30, 224},
   MeteringHistoricalConsumptionFormatting |-> {1, 30, 224}, MeteringSummationFormatting |-> {1, 30, 224},
   MeteringTemperatureFormatting |-> {1, 30, 224}, OccupancySensingOccupancy |-> Bits(1),
   OccupancySensingOccupancySensorTypeBitmap |-> Bits(3), OnWithTimedOffOnOffControl |-> Bits(1),
   PowerConfigurationMainsAlarmMask |-> Bits(3)]
UnifyBitmaps3 ==
  [PumpConfigurationAndControlAlarmMask |-> Bits(14), PumpConfigurationAndControlPumpStatus |-> Bits(9),
   QueryNextImageRequestFieldControl |-> Bits(1), ResetStartupParametersOptions |-> Bits(3),
   RestartDeviceOptions |-> {7, 8}, ScenesNameSupport |-> {128}, ShadeConfigurationStatus |-> Bits(4),
   SquawkSquawkConfiguration |-> {3, 8, 240}, StartWarningSirenConfiguration |-> {3, 12, 240},
   ThermostatACErrorCode |-> Bits(5), ThermostatAlarmMask |-> Bits(3),
   ThermostatHVACSystemTypeConfiguration |-> {3, 12, 16, 32}, ThermostatOccupancy |-> Bits(1),
   ThermostatRemoteSensing |-> Bits(3), ThermostatThermostatProgrammingOperationMode |-> Bits(3),
   ThermostatThermostatRunningState |-> Bits(7), TimeTimeStatus |-> Bits(4), TstatScheduleDOW |-> Bits(8),
   TstatScheduleMode |-> Bits(2), WindowCoveringConfigOrStatus |-> Bits(7), WindowCoveringMode |-> Bits(4),
   Map16 |-> Bits(0), Map24 |-> Bits(0), Map32 |-> Bits(0), Map40 |-> Bits(0), Map48 |-> Bits(0),
   Map56 |-> Bits(0), Map64 |-> Bits(0), Map8 |-> Bits(0)]
UnifyBitmaps ==
  UnifyBitmaps1 ++ UnifyBitmaps2 ++ UnifyBitmaps3

(***************************************************************************)
(* The enumerations of the Matter model, by name.                          *)
(***************************************************************************)
MatterEnums1 ==
  [ACCapacityFormatEnum |-> 1, ACCompressorTypeEnum |-> 4, ACLouverPositionEnum |-> 5, ACRefrigerantTypeEnum |-> 4,
   ACTypeEnum |-> 5, AccessControlEntryAuthModeEnum |-> 3, AccessControlEntryPrivilegeEnum |-> 5,
   ActionErrorEnum |-> 2, ActionStateEnum |-> 4, ActionTypeEnum |-> 7, AdjustmentCauseEnum |-> 2,
   AirQualityEnum |-> 7, AirflowDirectionEnum |-> 2, AlarmCodeEnum |-> 8, AlarmStateEnum |-> 3,
   AnnouncementReasonEnum |-> 3, ApplicationStatusEnum |-> 4, ApplyUpdateActionEnum |-> 3,
   AssociationFailureCauseEnum |-> 4, BatApprovedChemistryEnum |-> 33]
MatterEnums2 ==
  [BatChargeFaultEnum |-> 11, BatChargeLevelEnum |-> 3, BatChargeStateEnum |-> 4, BatCommonDesignationEnum |-> 81,
   BatFaultEnum |-> 3, BatReplaceabilityEnum |-> 4, BootReasonEnum |-> 7]
MatterEnums3 ==
  [CECKeyCodeEnum |-> 86, CalendarTypeEnum |-> 13, CauseEnum |-> 5, CertificateChainTypeEnum |-> 2,
   ChangeIndicationEnum |-> 3, ChangeReasonEnum |-> 5, ChangeTypeEnum |-> 3, ChannelTypeEnum |-> 4]
MatterEnums4 ==
  [CharacteristicEnum |-> 18, ColorEnum |-> 21, ColorLoopAction |-> 3, ColorLoopDirection |-> 2, ColorMode |-> 3,
   CommissioningErrorEnum |-> 5, CommissioningWindowStatusEnum |-> 3, ConnectionStatusEnum |-> 2,
   ContaminationStateEnum |-> 4, ControlModeEnum |-> 6, ControlSequenceOfOperationEnum |-> 6, CostTypeEnum |-> 4]
MatterEnums5 ==
  [CredentialRuleEnum |-> 3, CredentialTypeEnum |-> 9, CriticalityLevelEnum |-> 10, DataOperationTypeEnum |-> 3,
   DegradationDirectionEnum |-> 2, DelayedAllOffEffectVariantEnum |-> 3, DlLockState |-> 4, DlLockType |-> 12,
   DlStatus |-> 7, DoorLockOperationEventCode |-> 15, DoorLockProgrammingEventCode |-> 7,
   DoorLockSetPinOrIdStatus |-> 4, DoorLockUserStatus |-> 4, DoorLockUserType |-> 6, DoorStateEnum |-> 6,
   DownloadProtocolEnum |-> 4, DrynessLevelEnum |-> 4, DyingLightEffectVariantEnum |-> 1, ESAStateEnum |-> 5]
MatterEnums6 ==
  [ESATypeEnum |-> 15, EffectIdentifierEnum |-> 6, EffectVariantEnum |-> 1, EndOfServiceEnum |-> 2,
   EndProductType |-> 25, EndpointListTypeEnum |-> 3, EnergyPriorityEnum |-> 4,
   EnergyTransferStoppedReasonEnum |-> 3, ErrorStateEnum |-> 4, ExpressedStateEnum |-> 9, FanModeEnum |-> 7,
   FanModeSequenceEnum |-> 6, FaultStateEnum |-> 17, FaultType |-> 5]
MatterEnums7 ==
  [ForecastUpdateReasonEnum |-> 3, FutureMessagePreferenceEnum |-> 5, GranularityEnum |-> 5,
   GroupKeySecurityPolicyEnum |-> 2, HardwareFaultEnum |-> 11, HeatingSourceEnum |-> 3, HourFormatEnum |-> 3,
   HueDirection |-> 4, HueMoveMode |-> 3, HueStepMode |-> 2, IdentifyTypeEnum |-> 6, InputTypeEnum |-> 12,
   IntentEnum |-> 3, InterfaceTypeEnum |-> 5, KeypadLockoutEnum |-> 6, LevelValueEnum |-> 5,
   LightSensorTypeEnum |-> 2, LineupInfoTypeEnum |-> 1, LoadControlEventChangeSourceEnum |-> 2,
   LoadControlEventStatusEnum |-> 13]
MatterEnums8 ==
  [LockDataTypeEnum |-> 14, LockOperationTypeEnum |-> 5, MeasurementMediumEnum |-> 3, MeasurementTypeEnum |-> 15,
   MeasurementUnitEnum |-> 8, MessagePriorityEnum |-> 4, MetricTypeEnum |-> 2, ModeTag |-> 3, MoveModeEnum |-> 2,
   MuteStateEnum |-> 2, NetworkCommissioningStatusEnum |-> 13]
MatterEnums9 ==
  [NetworkFaultEnum |-> 4, NodeOperationalCertStatusEnum |-> 10, NumberOfRinsesEnum |-> 4,
   OccupancySensorTypeEnum |-> 4, OperatingModeEnum |-> 5, OperationErrorEnum |-> 5, OperationModeEnum |-> 4,
   OperationSourceEnum |-> 11, OperationalStateEnum |-> 4, OptOutStateEnum |-> 4, OutputTypeEnum |-> 6,
   PHYRateEnum |-> 10, ParameterEnum |-> 17, PlaybackStateEnum |-> 4, PowerModeEnum |-> 3,
   PowerSourceStatusEnum |-> 4, PresetScenarioEnum |-> 7]
MatterEnums10 ==
  [ProductFinishEnum |-> 6, ProductIdentifierTypeEnum |-> 5, RadioFaultEnum |-> 7,
   RegulatoryLocationTypeEnum |-> 3, RoutingRoleEnum |-> 7, SaturationMoveMode |-> 3, SaturationStepMode |-> 2,
   ScheduleProgrammingVisibilityEnum |-> 2, SecurityTypeEnum |-> 6, SensitivityEnum |-> 3,
   SetpointChangeSourceEnum |-> 3, SetpointRaiseLowerModeEnum |-> 3, SimpleEnum |-> 4, StartOfWeekEnum |-> 7,
   StartUpOnOffEnum |-> 3, StateEnum |-> 7, StatusCode |-> 1, StatusCodeEnum |-> 1]
MatterEnums11 ==
  [StatusEnum |-> 4, StepDirectionEnum |-> 2, StepModeEnum |-> 2, SupplyStateEnum |-> 5, SystemModeEnum |-> 9,
   TempUnitEnum |-> 3, TemperatureDisplayModeEnum |-> 2, TemperatureSetpointHoldEnum |-> 2,
   ThermostatRunningModeEnum |-> 3, TimeSourceEnum |-> 17, TimeZoneDatabaseEnum |-> 3, TimerStatusEnum |-> 4,
   TransferProtocolEnum |-> 2, Type |-> 11, UpdateStateEnum |-> 9, UserStatusEnum |-> 3]
MatterEnums12 ==
  [UserTypeEnum |-> 10, ValveStateEnum |-> 3, WiFiBandEnum |-> 6, WiFiVersionEnum |-> 7,
   WiredCurrentTypeEnum |-> 2, WiredFaultEnum |-> 3]
MatterEnums ==
  MatterEnums1 ++ MatterEnums2 ++ MatterEnums3 ++ MatterEnums4 ++ MatterEnums5 ++ MatterEnums6 ++
  MatterEnums7 ++ MatterEnums8 ++ MatterEnums9 ++ MatterEnums10 ++ MatterEnums11 ++ MatterEnums12

(***************************************************************************)
(* The bitmaps of the Matter model, by name.                               *)
(***************************************************************************)
MatterBitmaps1 ==
  [ACErrorCodeBitmap |-> Bits(5), AlarmBitmap |-> Bits(6), AlarmModeBitmap |-> Bits(2),
   BallastStatusBitmap |-> Bits(2), BarrierControlCapabilities |-> Bits(1), BarrierControlSafetyStatus |-> Bits(4),
   Bitmap16MaskMap |-> {1, 2, 4, 16384}, Bitmap32MaskMap |-> {1, 2, 4, 1073741824},
   Bitmap64MaskMap |-> {1, 2, 4, HighBit(62)}, Bitmap8MaskMap |-> {1, 2, 4, 64}, CancelControlBitmap |-> Bits(1),
   ColorCapabilities |-> Bits(5), ColorLoopUpdateFlags |-> Bits(4), CommandBits |-> Bits(12),
   ConfigStatus |-> Bits(7), CopyModeBitmap |-> Bits(1), DaysMaskMap |-> Bits(7), DeviceClassBitmap |-> Bits(17),
   DlCredentialRuleMask |-> Bits(3), DlCredentialRulesSupport |-> Bits(3),
   DlDefaultConfigurationRegister |-> {1, 2, 4, 32, 64, 128}]
MatterBitmaps2 ==
  [DlKeypadOperationEventMask |-> Bits(8), DlKeypadProgrammingEventMask |-> Bits(5),
   DlLocalProgrammingFeatures |-> Bits(4), DlManualOperationEventMask |-> Bits(11),
   DlRFIDOperationEventMask |-> Bits(7), DlRFIDProgrammingEventMask |-> {1, 32, 64},
   DlRemoteOperationEventMask |-> Bits(7), DlRemoteProgrammingEventMask |-> Bits(7),
   DlSupportedOperatingModes |-> Bits(5), DoorLockDayOfWeek |-> Bits(7), EventControlBitmap |-> Bits(1),
   EventTransitionControlBitmap |-> Bits(2)]
MatterBitmaps3 ==
  [Feature |-> Bits(15), HVACSystemTypeBitmap |-> {3, 12, 16, 32}, LampAlarmModeBitmap |-> Bits(1),
   MessageControlBitmap |-> Bits(5), Mode |-> Bits(4), NameSupportBitmap |-> {128}, OccupancyBitmap |-> Bits(1),
   OccupancySensorTypeBitmap |-> Bits(3), OnOffControlBitmap |-> Bits(1), OperationalStatus |-> {3, 12, 48},
   OptionsBitmap |-> Bits(2), PresetTypeFeaturesBitmap |-> Bits(2)]
MatterBitmaps4 ==
  [ProgrammingOperationModeBitmap |-> Bits(3), PumpStatusBitmap |-> Bits(9), RecordingFlagBitmap |-> Bits(3),
   RelayStateBitmap |-> Bits(7), RemoteSensingBitmap |-> Bits(3), RockBitmap |-> Bits(3),
   SafetyStatus |-> Bits(12), ScheduleDayOfWeekBitmap |-> Bits(8), ScheduleModeBitmap |-> Bits(2),
   ScheduleTypeFeaturesBitmap |-> Bits(4), SensorFaultBitmap |-> Bits(1), SimpleBitmap |-> Bits(3),
   SupportedProtocolsBitmap |-> Bits(2), TargetDayOfWeekBitmap |-> Bits(7),
   TemperatureSetpointHoldPolicyBitmap |-> Bits(2), ThreadCapabilitiesBitmap |-> Bits(5),
   UserActiveModeTriggerBitmap |-> Bits(17), ValveFaultBitmap |-> Bits(6), WiFiSecurityBitmap |-> Bits(6),
   WindBitmap |-> Bits(2), Bitmap16 |-> Bits(0), Bitmap32 |-> Bits(0), Bitmap64 |-> Bits(0), Bitmap8 |-> Bits(0)]
MatterBitmaps ==
  MatterBitmaps1 ++ MatterBitmaps2 ++ MatterBitmaps3 ++ MatterBitmaps4

(***************************************************************************)
(* The clusters of the Matter model, in the order of their codes (unsigned *)
(* 32-bit numbers, written as signed ones).                                *)
(***************************************************************************)
MatterClusters ==
  <<3, 4, 6, 7, 8, 15, 28, 29, 30, 31, 37, 40, 41, 42, 43, 44, 45, 46, 47, 48, 49, 50, 51, 52, 53, 54, 55, 56, 57,
    59, 60, 62, 63, 64, 65, 66, 67, 68, 69, 70, 71, 72, 73, 74, 80, 81, 82, 83, 84, 85, 86, 87, 89, 91, 92, 93,
    94, 95, 96, 97, 98, 113, 114, 128, 129, 144, 145, 150, 151, 152, 153, 155, 156, 157, 159, 257, 258, 259, 512,
    513, 514, 516, 768, 769, 1024, 1026, 1027, 1028, 1029, 1030, 1036, 1037, 1043, 1045, 1066, 1067, 1068, 1069,
    1070, 1071, 1283, 1284, 1285, 1286, 1287, 1288, 1289, 1290, 1291, 1292, 1293, 1294, 1295, 1296, 2820, -918523,
    -918522, -918496>>
=============================================================================
