------------------------- MODULE CommonGenerators -------------------------
(* The generators of the oracles about
   upstream's common settings, constants, launcher and utilities, and construction equality.
   Every generator loads its support, then runs its main function. *)
EXTENDS ProfileGenerators

------------------------------------------------------------------------------
(* generate_common_core_oracle.py *)
CommonCoreLoadSupport == SiblingByConstants("day_schedule_core", DayScheduleCoreLoadSupport)
CommonCoreInventory == DayScheduleMetricsInventory \o RowsPinned
CommonCoreExecute == Observe("primary", {"target", "day_schedule_core"}) \o Semantics
CommonCoreSafeTree == PortableFacts
CommonCoreCheckObservations == Semantics
CommonCoreCheckSemantics == Semantics
CommonCoreValidate ==
  DeclaresPin \o InterpreterChecked \o RowsPinned \o CommonCoreCheckObservations \o
  CommonCoreSafeTree \o RowsPinned \o CommonCoreCheckSemantics \o PortableFacts
CommonCoreBuild ==
  Pinned("root", "target") \o RowsPinned \o Pinned("root", "target") \o
  ImportFile("root") \o Pinned("root", "target") \o CommonCoreExecute \o CommonCoreValidate
CommonCoreMain == InterpreterChecked \o CommonCoreInventory \o CommonCoreBuild \o Write

------------------------------------------------------------------------------
(* generate_constants_engineering_oracle.py *)
ConstantsEngineeringLoadSupport == SiblingByConstants("schedule_type", <<>>)
ConstantsEngineeringInventory == ScheduleTypeInventory \o RowsPinned
ConstantsEngineeringDependencies == PackagesChecked
ConstantsEngineeringLocate == Pinned("root", "target")
ConstantsEngineeringCheckSemantics == Semantics
ConstantsEngineeringPinnedModules(body) ==
  Pinned("root", "target") \o ImportTree("root") \o body
ConstantsEngineeringValidate ==
  InterpreterChecked \o DeclaresPin \o RowsPinned \o ConstantsEngineeringCheckSemantics \o
  PortableFacts
ConstantsEngineeringBuild ==
  ConstantsEngineeringLocate \o Pinned("root", "target") \o RowsPinned \o
  ConstantsEngineeringPinnedModules(Probe \o Observe("primary", {"target",
      "schedule_type"})) \o
  ConstantsEngineeringDependencies \o Pinned("root", "target") \o
  ConstantsEngineeringValidate
ConstantsEngineeringMain ==
  InterpreterChecked \o ConstantsEngineeringDependencies \o ConstantsEngineeringInventory \o
  ConstantsEngineeringBuild \o Write

------------------------------------------------------------------------------
(* generate_constants_metadata_oracle.py *)
ConstantsMetadataLoadSupport == SiblingByConstants("schedule_type", <<>>)
ConstantsMetadataInventory == HashInventory \o ScheduleTypeInventory \o RowsPinned
ConstantsMetadataSafeTree == PortableFacts
ConstantsMetadataCaseFacts == FactsPinned
ConstantsMetadataIsolatedModules(body) ==
  Copy("root", "target") \o Pinned("copy", "target") \o Use("copy", "target") \o
  Copy("root", "target") \o Pinned("copy", "target") \o UseToo("copy", "target") \o body
ConstantsMetadataValidate ==
  ConstantsMetadataSafeTree \o ConstantsMetadataCaseFacts \o FactsPinned \o RowsPinned \o
  InterpreterChecked \o DeclaresPin \o RowsPinned
ConstantsMetadataBuild ==
  Pinned("root", "target") \o DeclaresPin \o RowsPinned \o
  ConstantsMetadataIsolatedModules(Observe("primary", {"target"}) \o SameSignatures \o
      Observe("primary", {"target", "schedule_type"}) \o FactsPinned \o
      ConstantsMetadataCaseFacts \o FactsPinned \o PackagesChecked) \o
  ConstantsMetadataValidate
ConstantsMetadataMain ==
  InterpreterChecked \o PackagesChecked \o ConstantsMetadataInventory \o
  ConstantsMetadataBuild \o Write

------------------------------------------------------------------------------
(* generate_construction_equality_hash_oracle.py *)
ConstructionEqualityHashInventory == ParseInventory \o SameContent \o RowsPinned
ConstructionEqualityHashMain ==
  InterpreterChecked \o ConstructionEqualityHashInventory \o ImportTree("root") \o
  Pinned("root", "target") \o RowsPinned \o Observe("primary", {"target", "rest"}) \o Write

------------------------------------------------------------------------------
(* generate_launcher_result_parser_oracle.py *)
LauncherResultParserLoadSupport == SiblingByConstants("common_core", CommonCoreLoadSupport)
LauncherResultParserInventory == CommonCoreInventory \o RowsPinned
LauncherResultParserLocate == Pinned("root", "target")
LauncherResultParserSafeTree == PortableFacts
LauncherResultParserCheckObservations == Semantics
LauncherResultParserPinnedModules(body) ==
  Pinned("root", "target") \o ImportTree("root") \o body
LauncherResultParserValidate ==
  InterpreterChecked \o DeclaresPin \o RowsPinned \o Semantics \o
  LauncherResultParserSafeTree \o PortableFacts
LauncherResultParserBuild ==
  LauncherResultParserLocate \o Pinned("root", "target") \o RowsPinned \o
  LauncherResultParserPinnedModules(Observe("primary", {"target", "rest",
      "common_core"})) \o
  PackagesChecked \o LauncherResultParserValidate
LauncherResultParserMain ==
  InterpreterChecked \o PackagesChecked \o LauncherResultParserInventory \o
  LauncherResultParserBuild \o Write

------------------------------------------------------------------------------
(* generate_launcher_runtime_oracle.py *)
LauncherRuntimeLoadSupport ==
  SiblingByConstants("launcher_result_parser", LauncherResultParserLoadSupport)
LauncherRuntimeInventory == LauncherResultParserInventory \o RowsPinned
LauncherRuntimeCheckSemantics == Semantics
LauncherRuntimeValidate ==
  InterpreterChecked \o DeclaresPin \o RowsPinned \o LauncherRuntimeCheckSemantics \o
  PortableFacts
LauncherRuntimeBuild ==
  LauncherResultParserLocate \o Pinned("root", "target") \o RowsPinned \o
  LauncherResultParserPinnedModules(Probe \o Observe("primary", {"target", "rest",
      "launcher_result_parser"})) \o
  PackagesChecked \o LauncherRuntimeValidate
LauncherRuntimeMain ==
  InterpreterChecked \o PackagesChecked \o LauncherRuntimeInventory \o
  LauncherRuntimeBuild \o Write

------------------------------------------------------------------------------
(* generate_utils_core_oracle.py *)
UtilsCoreLoadSupport == SiblingByConstants("day_schedule_core", DayScheduleCoreLoadSupport)
UtilsCoreInventory == DayScheduleMetricsInventory \o SameContent \o RowsPinned
UtilsCoreExecute == Observe("primary", {"target", "rest", "day_schedule_core"}) \o Semantics
UtilsCoreSafeTree == PortableFacts
UtilsCoreCheckObservations == Semantics
UtilsCoreValidate ==
  DeclaresPin \o InterpreterChecked \o RowsPinned \o UtilsCoreCheckObservations \o
  UtilsCoreSafeTree \o RowsPinned \o Semantics \o PortableFacts
UtilsCoreMain ==
  InterpreterChecked \o UtilsCoreInventory \o ImportTree("root") \o
  Pinned("root", "target") \o RowsPinned \o Probe \o UtilsCoreExecute \o
  UtilsCoreValidate \o Write

------------------------------------------------------------------------------
\* The programs the script starts, one process each, and what each oracle names.
CommonPrograms ==
  [common_core |-> CommonCoreLoadSupport \o CommonCoreMain,
   constants_engineering |-> ConstantsEngineeringLoadSupport \o ConstantsEngineeringMain,
   constants_metadata |-> ConstantsMetadataLoadSupport \o ConstantsMetadataMain,
   construction_equality_hash |-> ConstructionEqualityHashMain,
   launcher_result_parser |-> LauncherResultParserLoadSupport \o LauncherResultParserMain,
   launcher_runtime |-> LauncherRuntimeLoadSupport \o LauncherRuntimeMain,
   utils_core |-> UtilsCoreLoadSupport \o UtilsCoreMain]
CommonNames ==
  [common_core |-> {"target", "inventory", "interpreter"},
   constants_engineering |-> {"target", "inventory", "interpreter", "packages"},
   constants_metadata |-> {"target", "inventory", "interpreter", "packages"},
   construction_equality_hash |-> {"target", "inventory", "interpreter"},
   launcher_result_parser |-> {"target", "inventory", "interpreter", "packages"},
   launcher_runtime |-> {"target", "inventory", "interpreter", "packages"},
   utils_core |-> {"target", "inventory", "interpreter"}]
==============================================================================
