----------------------- MODULE DragonModelGenerators -----------------------
(* The generators of the oracles about
   upstream's energy model, and the supply groups its assembly needs.
   Every generator loads its support, then runs its main function. *)
EXTENDS ProfileGenerators

------------------------------------------------------------------------------
(* generate_dragon_model_assembly_oracle.py *)
ModelAssemblyLoadSupport == SiblingByConstants("schedule_type", <<>>)
ModelAssemblyInventory == ScheduleTypeInventory \o SameContent \o RowsPinned
ModelAssemblyExpectedFacts == FactsPinned
ModelAssemblyAuditLoaded(place) == PinnedTree(place)
ModelAssemblyLocate == PinnedTree("root")
ModelAssemblyExecute == Observe("primary", {"target", "rest"}) \o Semantics
ModelAssemblyPinnedModules(place, body) ==
  PinnedTree(place) \o CopyTree(place) \o PinnedTree("copy") \o ImportTree("copy") \o
  ModelAssemblyAuditLoaded("copy") \o body \o ModelAssemblyAuditLoaded("copy")
ModelAssemblyValidate ==
  PortableFacts \o ModelAssemblyExpectedFacts \o FactsPinned \o InterpreterChecked \o
  DeclaresPin \o RowsPinned
ModelAssemblyBuild ==
  ModelAssemblyLocate \o DeclaresPin \o RowsPinned \o PinnedTree("root") \o
  ModelAssemblyPinnedModules("root", ModelAssemblyExecute \o ModelAssemblyExpectedFacts \o
      FactsPinned) \o
  PackagesChecked \o PinnedTree("root") \o ModelAssemblyValidate
ModelAssemblyMain ==
  InterpreterChecked \o PackagesChecked \o ModelAssemblyInventory \o ModelAssemblyBuild \o
  Write

------------------------------------------------------------------------------
(* generate_dragon_hvac_supply_group_core_oracle.py *)
HvacSupplyGroupCoreLoadSupport ==
  SiblingByConstants("dragon_model_assembly", ModelAssemblyLoadSupport)
HvacSupplyGroupCoreInventory == ScheduleTypeInventory \o SameContent \o RowsPinned
HvacSupplyGroupCoreExecute == Observe("primary", {"target", "rest"}) \o Semantics
HvacSupplyGroupCoreExpectedFacts == FactsPinned
HvacSupplyGroupCoreValidate ==
  PortableFacts \o HvacSupplyGroupCoreExpectedFacts \o FactsPinned \o InterpreterChecked \o
  DeclaresPin \o RowsPinned
HvacSupplyGroupCoreBuild ==
  PinnedTree("root") \o DeclaresPin \o RowsPinned \o PinnedTree("root") \o
  ModelAssemblyPinnedModules("root", HvacSupplyGroupCoreExecute \o
      HvacSupplyGroupCoreExpectedFacts \o FactsPinned) \o
  PackagesChecked \o PinnedTree("root") \o HvacSupplyGroupCoreValidate
HvacSupplyGroupCoreMain ==
  InterpreterChecked \o PackagesChecked \o HvacSupplyGroupCoreInventory \o
  HvacSupplyGroupCoreBuild \o Write

------------------------------------------------------------------------------
(* generate_dragon_model_add_supply_system_oracle.py *)
ModelAddSupplySystemLoadSupport ==
  SiblingByConstants("dragon_model_assembly", ModelAssemblyLoadSupport)
ModelAddSupplySystemInventory == ScheduleTypeInventory \o SameContent \o RowsPinned
ModelAddSupplySystemExpectedFacts == FactsPinned
ModelAddSupplySystemExecute == Observe("primary", {"target", "rest"}) \o Semantics
ModelAddSupplySystemValidate ==
  PortableFacts \o ModelAddSupplySystemExpectedFacts \o FactsPinned \o InterpreterChecked \o
  DeclaresPin \o RowsPinned
ModelAddSupplySystemBuild ==
  PinnedTree("root") \o DeclaresPin \o RowsPinned \o PinnedTree("root") \o
  ModelAssemblyPinnedModules("root", ModelAddSupplySystemExecute \o
      ModelAddSupplySystemExpectedFacts \o FactsPinned) \o
  PackagesChecked \o PinnedTree("root") \o ModelAddSupplySystemValidate
ModelAddSupplySystemMain ==
  InterpreterChecked \o PackagesChecked \o ModelAddSupplySystemInventory \o
  ModelAddSupplySystemBuild \o Write

------------------------------------------------------------------------------
(* generate_dragon_model_class_oracle.py *)
ModelClassLoadSupport ==
  SiblingByConstants("dragon_hvac_supply_group_core", HvacSupplyGroupCoreLoadSupport)
ModelClassInventory == ReadRows \o ScheduleTypeInventory \o SameContent \o RowsPinned
ModelClassExecute == Observe("primary", {"target", "rest"}) \o Semantics
ModelClassSafeTree == PortableFacts
ModelClassCheckSemantics == Semantics
ModelClassValidate ==
  ModelClassSafeTree \o ModelClassCheckSemantics \o FactsPinned \o RowsPinned \o
  InterpreterChecked \o DeclaresPin \o RowsPinned
ModelClassBuild ==
  PinnedTree("root") \o DeclaresPin \o RowsPinned \o PinnedTree("root") \o
  Pinned("root", "target") \o
  ModelAssemblyPinnedModules("root", ModelClassExecute \o FactsPinned \o
      PackagesChecked \o PinnedTree("root")) \o
  ModelClassValidate
ModelClassMain ==
  InterpreterChecked \o PackagesChecked \o ModelClassInventory \o ModelClassBuild \o Write

------------------------------------------------------------------------------
(* generate_dragon_model_conditioning_oracle.py *)
ModelConditioningLoadSupport == SiblingByConstants("schedule_type", <<>>)
ModelConditioningInventory == ScheduleTypeInventory \o SameContent \o RowsPinned
ModelConditioningLocate == Pinned("root", "target")
ModelConditioningExecuteModelProperty == Observe("primary", {"target", "rest"}) \o Semantics
ModelConditioningPinnedModules(body) ==
  Pinned("root", "target") \o ImportTree("root") \o body
ModelConditioningValidate ==
  PortableFacts \o FactsPinned \o InterpreterChecked \o DeclaresPin \o RowsPinned
ModelConditioningBuild ==
  ModelConditioningLocate \o DeclaresPin \o RowsPinned \o Pinned("root", "target") \o
  ModelConditioningPinnedModules(ModelConditioningExecuteModelProperty \o
      Observe("primary", {"target", "rest"}) \o Semantics \o FactsPinned) \o
  PackagesChecked \o Pinned("root", "target") \o ModelConditioningValidate
ModelConditioningMain ==
  InterpreterChecked \o PackagesChecked \o ModelConditioningInventory \o
  ModelConditioningBuild \o Write

------------------------------------------------------------------------------
(* generate_dragon_model_construction_defaults_oracle.py *)
ModelConstructionDefaultsLoadSupport == SiblingByConstants("schedule_type", <<>>)
ModelConstructionDefaultsInventory == ScheduleTypeInventory \o SameContent \o RowsPinned
ModelConstructionDefaultsExpectedFacts == FactsPinned
ModelConstructionDefaultsLocate == Pinned("root", "target")
ModelConstructionDefaultsExecuteCreateDefault ==
  Observe("primary", {"target", "rest"}) \o Semantics
ModelConstructionDefaultsExecuteInit == Observe("primary", {"target", "rest"}) \o Semantics
ModelConstructionDefaultsPinnedModules(body) ==
  Pinned("root", "target") \o ImportTree("root") \o body
ModelConstructionDefaultsValidate ==
  PortableFacts \o ModelConstructionDefaultsExpectedFacts \o FactsPinned \o
  InterpreterChecked \o DeclaresPin \o RowsPinned
ModelConstructionDefaultsBuild ==
  ModelConstructionDefaultsLocate \o DeclaresPin \o RowsPinned \o
  Pinned("root", "target") \o
  ModelConstructionDefaultsPinnedModules(ModelConstructionDefaultsExecuteCreateDefault \o
      ModelConstructionDefaultsExecuteInit \o ModelConstructionDefaultsExpectedFacts \o
      FactsPinned) \o
  PackagesChecked \o Pinned("root", "target") \o ModelConstructionDefaultsValidate
ModelConstructionDefaultsMain ==
  InterpreterChecked \o PackagesChecked \o ModelConstructionDefaultsInventory \o
  ModelConstructionDefaultsBuild \o Write

------------------------------------------------------------------------------
(* generate_dragon_model_projections_oracle.py *)
ModelProjectionsLoadSupport == SiblingByConstants("schedule_type", <<>>)
ModelProjectionsInventory == ScheduleTypeInventory \o SameContent \o RowsPinned
ModelProjectionsExpectedFacts == FactsPinned
ModelProjectionsExecuteSurfaces == Observe("primary", {"target", "rest"}) \o Semantics
ModelProjectionsExecuteUsedConstructions ==
  Observe("primary", {"target", "rest"}) \o Semantics
ModelProjectionsExecuteUsedLayers == Observe("primary", {"target", "rest"}) \o Semantics
ModelProjectionsExecuteUsedProfiles == Observe("primary", {"target", "rest"}) \o Semantics
ModelProjectionsPinnedModules(body) ==
  Pinned("root", "target") \o ImportTree("root") \o body
ModelProjectionsValidate ==
  PortableFacts \o ModelProjectionsExpectedFacts \o FactsPinned \o InterpreterChecked \o
  DeclaresPin \o RowsPinned
ModelProjectionsBuild ==
  Pinned("root", "target") \o DeclaresPin \o RowsPinned \o Pinned("root", "target") \o
  ModelProjectionsPinnedModules(ModelProjectionsExecuteSurfaces \o
      ModelProjectionsExecuteUsedConstructions \o ModelProjectionsExecuteUsedLayers \o
      ModelProjectionsExecuteUsedProfiles \o ModelProjectionsExpectedFacts \o FactsPinned) \o
  PackagesChecked \o Pinned("root", "target") \o ModelProjectionsValidate
ModelProjectionsMain ==
  InterpreterChecked \o PackagesChecked \o ModelProjectionsInventory \o
  ModelProjectionsBuild \o Write

------------------------------------------------------------------------------
(* generate_dragon_model_terrain_oracle.py *)
ModelTerrainLoadSupport == SiblingByConstants("schedule_type", <<>>)
ModelTerrainInventory == ScheduleTypeInventory \o RowsPinned
ModelTerrainCheckSemantics == Semantics
ModelTerrainPinnedModules(body) == Pinned("root", "target") \o ImportTree("root") \o body
ModelTerrainValidate ==
  InterpreterChecked \o DeclaresPin \o RowsPinned \o PortableFacts \o
  ModelTerrainCheckSemantics
ModelTerrainBuild ==
  Pinned("root", "target") \o RowsPinned \o
  ModelTerrainPinnedModules(Probe \o Observe("primary", {"target", "rest",
      "schedule_type"})) \o
  PackagesChecked \o Pinned("root", "target") \o ModelTerrainValidate
ModelTerrainMain ==
  InterpreterChecked \o PackagesChecked \o ModelTerrainInventory \o ModelTerrainBuild \o
  Write

------------------------------------------------------------------------------
\* The programs the script starts, one process each, and what each oracle names.
DragonModelPrograms ==
  [dragon_model_assembly |-> ModelAssemblyLoadSupport \o ModelAssemblyMain,
   dragon_hvac_supply_group_core |-> HvacSupplyGroupCoreLoadSupport \o
      HvacSupplyGroupCoreMain,
   dragon_model_add_supply_system |-> ModelAddSupplySystemLoadSupport \o
      ModelAddSupplySystemMain,
   dragon_model_class |-> ModelClassLoadSupport \o ModelClassMain,
   dragon_model_conditioning |-> ModelConditioningLoadSupport \o ModelConditioningMain,
   dragon_model_construction_defaults |-> ModelConstructionDefaultsLoadSupport \o
      ModelConstructionDefaultsMain,
   dragon_model_projections |-> ModelProjectionsLoadSupport \o ModelProjectionsMain,
   dragon_model_terrain |-> ModelTerrainLoadSupport \o ModelTerrainMain]
DragonModelNames ==
  [dragon_model_assembly |-> {"target", "inventory", "rest", "interpreter", "packages"},
   dragon_hvac_supply_group_core |-> {"target", "inventory", "rest", "interpreter",
      "packages"},
   dragon_model_add_supply_system |-> {"target", "inventory", "rest", "interpreter",
      "packages"},
   dragon_model_class |-> {"target", "inventory", "rest", "interpreter", "packages"},
   dragon_model_conditioning |-> {"target", "inventory", "interpreter", "packages"},
   dragon_model_construction_defaults |-> {"target", "inventory", "interpreter",
      "packages"},
   dragon_model_projections |-> {"target", "inventory", "interpreter", "packages"},
   dragon_model_terrain |-> {"target", "inventory", "interpreter", "packages"}]
==============================================================================
