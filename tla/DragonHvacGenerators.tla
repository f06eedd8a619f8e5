----------------------- MODULE DragonHvacGenerators -----------------------
(* The generators of the oracles about upstream's HVAC systems.
   Every generator loads its support, then runs its main function. *)
EXTENDS DragonModelGenerators

------------------------------------------------------------------------------
(* generate_dragon_hvac_supply_core_oracle.py *)
HvacSupplyCoreLoadSupport ==
  SiblingHashedFirst("dragon_model_assembly", ModelAssemblyLoadSupport)
HvacSupplyCoreInventory == HashInventory \o ParseInventory \o DeclaresPin \o RowsPinned
HvacSupplyCoreSupportReceipt ==
  Fixture("dragon_hvac_supply_group_core") \o
  Fixture("dragon_hvac_supply_group_to_idf_object") \o
  Fixture("dragon_model_add_supply_system")
HvacSupplyCoreNativeReview == Pinned("root", "reviewed")
HvacSupplyCoreExecute(slot) ==
  Observe(slot, {"target", "rest", "dragon_model_assembly"}) \o Semantics
HvacSupplyCoreRuntimeReceipt == PackagesChecked \o InterpreterChecked
HvacSupplyCoreValidate ==
  HvacSupplyCoreRuntimeReceipt \o InterpreterChecked \o RowsPinned \o DeclaresPin \o
  RowsPinned \o DeclaresPin \o SameSignatures \o FactsPinned \o
  HvacSupplyCoreNativeReview \o HvacSupplyCoreSupportReceipt \o RowsPinned \o PortableFacts
HvacSupplyCoreBuild ==
  HvacSupplyCoreInventory \o HvacSupplyCoreRuntimeReceipt \o HvacSupplyCoreSupportReceipt \o
  HvacSupplyCoreNativeReview \o ModelAssemblyLocate \o Pinned("root", "target") \o
  ModelAssemblyPinnedModules("root", HvacSupplyCoreExecute("primary") \o
      Observe("primary", {"target"})) \o
  CopyTree("root") \o Pinned("copy", "target") \o
  ModelAssemblyPinnedModules("copy", HvacSupplyCoreExecute("relocated") \o
      Observe("relocated", {"target"})) \o
  Alike \o FactsPinned \o HvacSupplyCoreValidate \o PortableFacts
HvacSupplyCoreMain == HvacSupplyCoreBuild \o Write

------------------------------------------------------------------------------
(* generate_dragon_hvac_appenders_controllers_oracle.py *)
HvacAppendersControllersLoadSupport ==
  SiblingHashedFirst("dragon_hvac_supply_core", HvacSupplyCoreLoadSupport)
HvacAppendersControllersInventory ==
  HashInventory \o ParseInventory \o SameContent \o RowsPinned
HvacAppendersControllersSupportReceipt ==
  Pinned("root", "dragon_hvac_supply_core") \o Fixture("dragon_hvac_supply_core")
HvacAppendersControllersNativeReview == Pinned("root", "reviewed")
HvacAppendersControllersIsolatedImport(body) ==
  PinnedTree("root") \o CopyTree("root") \o ImportTree("copy") \o
  ModelAssemblyAuditLoaded("copy") \o body
HvacAppendersControllersValidate ==
  RowsPinned \o SameSignatures \o RowsPinned \o InterpreterChecked \o
  HvacAppendersControllersSupportReceipt \o RowsPinned \o
  HvacAppendersControllersNativeReview \o DeclaresPin \o FactsPinned \o PortableFacts
HvacAppendersControllersBuild ==
  DeclaresPin \o PinnedTree("root") \o Pinned("root", "target") \o
  HvacAppendersControllersIsolatedImport(Observe("primary", {"target"}) \o
      Observe("primary", {"target", "rest"}) \o Semantics) \o
  HvacAppendersControllersIsolatedImport(Observe("relocated", {"target"}) \o
      Observe("relocated", {"target", "rest"}) \o Semantics) \o
  Alike \o SameSignatures \o FactsPinned \o HvacAppendersControllersNativeReview \o
  HvacAppendersControllersSupportReceipt \o HvacAppendersControllersValidate
HvacAppendersControllersMain ==
  InterpreterChecked \o PackagesChecked \o HvacAppendersControllersInventory \o
  HvacAppendersControllersBuild \o Write

------------------------------------------------------------------------------
(* generate_dragon_hvac_misc_systems_core_oracle.py *)
HvacMiscSystemsCoreLoadSupport ==
  SiblingHashedFirst("dragon_hvac_supply_core", HvacSupplyCoreLoadSupport)
HvacMiscSystemsCoreInventory == HashInventory \o ParseInventory \o DeclaresPin \o RowsPinned
HvacMiscSystemsCoreExecute(slot) ==
  Observe(slot, {"target", "rest", "dragon_hvac_supply_core"})
HvacMiscSystemsCoreSupportReceipt == Fixture("dragon_hvac_photovoltaic_to_idf_object")
HvacMiscSystemsCoreNativeReview == Pinned("root", "reviewed")
HvacMiscSystemsCoreRuntimeReceipt == PackagesChecked \o InterpreterChecked
HvacMiscSystemsCoreValidate ==
  HvacMiscSystemsCoreRuntimeReceipt \o InterpreterChecked \o RowsPinned \o DeclaresPin \o
  RowsPinned \o DeclaresPin \o SameSignatures \o FactsPinned \o
  HvacMiscSystemsCoreNativeReview \o HvacMiscSystemsCoreSupportReceipt \o RowsPinned \o
  PortableFacts
HvacMiscSystemsCoreBuild ==
  HvacMiscSystemsCoreInventory \o HvacMiscSystemsCoreRuntimeReceipt \o
  HvacMiscSystemsCoreNativeReview \o HvacMiscSystemsCoreSupportReceipt \o
  ModelAssemblyLocate \o Pinned("root", "target") \o
  ModelAssemblyPinnedModules("root", HvacMiscSystemsCoreExecute("primary") \o
      Observe("primary", {"target"})) \o
  CopyTree("root") \o Pinned("copy", "target") \o
  ModelAssemblyPinnedModules("copy", HvacMiscSystemsCoreExecute("relocated") \o
      Observe("relocated", {"target"})) \o
  Alike \o FactsPinned \o SameSignatures \o FactsPinned \o HvacMiscSystemsCoreValidate \o
  PortableFacts
HvacMiscSystemsCoreMain == HvacMiscSystemsCoreBuild \o Write

------------------------------------------------------------------------------
(* generate_dragon_hvac_photovoltaic_to_idf_object_oracle.py *)
HvacPhotovoltaicToIdfObjectLoadSupport ==
  SiblingByConstants("dragon_hvac_supply_group_core", HvacSupplyGroupCoreLoadSupport)
HvacPhotovoltaicToIdfObjectInventory == ScheduleTypeInventory \o SameContent \o RowsPinned
HvacPhotovoltaicToIdfObjectExecute == Observe("primary", {"target", "rest"}) \o Semantics
HvacPhotovoltaicToIdfObjectExpectedFacts == FactsPinned
HvacPhotovoltaicToIdfObjectValidate ==
  PortableFacts \o HvacPhotovoltaicToIdfObjectExpectedFacts \o FactsPinned \o
  InterpreterChecked \o DeclaresPin \o RowsPinned
HvacPhotovoltaicToIdfObjectBuild ==
  PinnedTree("root") \o DeclaresPin \o RowsPinned \o PinnedTree("root") \o
  ModelAssemblyPinnedModules("root", HvacPhotovoltaicToIdfObjectExecute \o
      HvacPhotovoltaicToIdfObjectExpectedFacts \o FactsPinned) \o
  PackagesChecked \o PinnedTree("root") \o HvacPhotovoltaicToIdfObjectValidate
HvacPhotovoltaicToIdfObjectMain ==
  InterpreterChecked \o PackagesChecked \o HvacPhotovoltaicToIdfObjectInventory \o
  HvacPhotovoltaicToIdfObjectBuild \o Write

------------------------------------------------------------------------------
(* generate_dragon_hvac_source_system_to_idf_object_oracle.py *)
HvacSourceSystemToIdfObjectLoadSupport ==
  SiblingByConstants("dragon_hvac_supply_group_core", HvacSupplyGroupCoreLoadSupport)
HvacSourceSystemToIdfObjectInventory == ScheduleTypeInventory \o SameContent \o RowsPinned
HvacSourceSystemToIdfObjectExecute == Observe("primary", {"target", "rest"}) \o Semantics
HvacSourceSystemToIdfObjectCaseFacts == FactsPinned
HvacSourceSystemToIdfObjectValidate ==
  PortableFacts \o HvacSourceSystemToIdfObjectCaseFacts \o InterpreterChecked \o
  DeclaresPin \o RowsPinned
HvacSourceSystemToIdfObjectBuild ==
  PinnedTree("root") \o DeclaresPin \o RowsPinned \o PinnedTree("root") \o
  ModelAssemblyPinnedModules("root", Pinned("root", "target") \o
      HvacSourceSystemToIdfObjectExecute \o HvacSourceSystemToIdfObjectCaseFacts \o
      PackagesChecked \o PinnedTree("root")) \o
  HvacSourceSystemToIdfObjectValidate
HvacSourceSystemToIdfObjectMain ==
  InterpreterChecked \o PackagesChecked \o HvacSourceSystemToIdfObjectInventory \o
  HvacSourceSystemToIdfObjectBuild \o Write

------------------------------------------------------------------------------
(* generate_dragon_hvac_source_tower_core_oracle.py *)
HvacSourceTowerCoreLoadSupport ==
  SiblingHashedFirst("dragon_hvac_source_system_to_idf_object",
      HvacSourceSystemToIdfObjectLoadSupport)
HvacSourceTowerCoreInventory == HashInventory \o ParseInventory \o SameContent \o RowsPinned
HvacSourceTowerCoreExecute(slot) == Observe(slot, {"target", "rest"}) \o Semantics
HvacSourceTowerCoreLocate == PinnedTree("root")
HvacSourceTowerCoreSupportReceipt ==
  Pinned("root", "dragon_hvac_source_system_to_idf_object") \o
  Fixture("dragon_hvac_source_system_to_idf_object")
HvacSourceTowerCoreNativeReview == Pinned("root", "reviewed")
HvacSourceTowerCoreIsolatedImport(body) ==
  PinnedTree("root") \o CopyTree("root") \o ImportTree("copy") \o PinnedTree("copy") \o body
HvacSourceTowerCoreValidate ==
  RowsPinned \o SameSignatures \o RowsPinned \o InterpreterChecked \o
  HvacSourceTowerCoreSupportReceipt \o RowsPinned \o HvacSourceTowerCoreNativeReview \o
  DeclaresPin \o FactsPinned \o PortableFacts
HvacSourceTowerCoreBuild ==
  DeclaresPin \o HvacSourceTowerCoreLocate \o
  HvacSourceTowerCoreIsolatedImport(Observe("primary", {"target"}) \o
      HvacSourceTowerCoreExecute("primary")) \o
  HvacSourceTowerCoreIsolatedImport(Observe("relocated", {"target"}) \o
      HvacSourceTowerCoreExecute("relocated")) \o
  Alike \o SameSignatures \o FactsPinned \o HvacSourceTowerCoreNativeReview \o
  HvacSourceTowerCoreSupportReceipt \o HvacSourceTowerCoreValidate
HvacSourceTowerCoreMain ==
  InterpreterChecked \o PackagesChecked \o HvacSourceTowerCoreInventory \o
  HvacSourceTowerCoreBuild \o Write

------------------------------------------------------------------------------
(* generate_dragon_hvac_supply_group_to_idf_object_oracle.py *)
HvacSupplyGroupToIdfObjectLoadSupport ==
  SiblingByConstants("dragon_hvac_supply_group_core", HvacSupplyGroupCoreLoadSupport)
HvacSupplyGroupToIdfObjectInventory == ScheduleTypeInventory \o SameContent \o RowsPinned
HvacSupplyGroupToIdfObjectExpectedFacts == FactsPinned
HvacSupplyGroupToIdfObjectExecute == Observe("primary", {"target", "rest"}) \o Semantics
HvacSupplyGroupToIdfObjectValidate ==
  PortableFacts \o HvacSupplyGroupToIdfObjectExpectedFacts \o FactsPinned \o
  InterpreterChecked \o DeclaresPin \o RowsPinned
HvacSupplyGroupToIdfObjectBuild ==
  PinnedTree("root") \o DeclaresPin \o RowsPinned \o PinnedTree("root") \o
  ModelAssemblyPinnedModules("root", HvacSupplyGroupToIdfObjectExecute \o
      HvacSupplyGroupToIdfObjectExpectedFacts \o FactsPinned) \o
  PackagesChecked \o PinnedTree("root") \o HvacSupplyGroupToIdfObjectValidate
HvacSupplyGroupToIdfObjectMain ==
  InterpreterChecked \o PackagesChecked \o HvacSupplyGroupToIdfObjectInventory \o
  HvacSupplyGroupToIdfObjectBuild \o Write

------------------------------------------------------------------------------
\* The programs the script starts, one process each, and what each oracle names.
DragonHvacPrograms ==
  [dragon_hvac_supply_core |-> HvacSupplyCoreLoadSupport \o HvacSupplyCoreMain,
   dragon_hvac_appenders_controllers |-> HvacAppendersControllersLoadSupport \o
      HvacAppendersControllersMain,
   dragon_hvac_misc_systems_core |-> HvacMiscSystemsCoreLoadSupport \o
      HvacMiscSystemsCoreMain,
   dragon_hvac_photovoltaic_to_idf_object |-> HvacPhotovoltaicToIdfObjectLoadSupport \o
      HvacPhotovoltaicToIdfObjectMain,
   dragon_hvac_source_system_to_idf_object |-> HvacSourceSystemToIdfObjectLoadSupport \o
      HvacSourceSystemToIdfObjectMain,
   dragon_hvac_source_tower_core |-> HvacSourceTowerCoreLoadSupport \o
      HvacSourceTowerCoreMain,
   dragon_hvac_supply_group_to_idf_object |-> HvacSupplyGroupToIdfObjectLoadSupport \o
      HvacSupplyGroupToIdfObjectMain]
DragonHvacNames ==
  [dragon_hvac_supply_core |-> {"target", "inventory", "rest", "interpreter", "packages",
      "reviewed", "fixture", "dragon_model_assembly"},
   dragon_hvac_appenders_controllers |-> {"target", "inventory", "rest", "interpreter",
      "packages", "reviewed", "fixture", "dragon_hvac_supply_core"},
   dragon_hvac_misc_systems_core |-> {"target", "inventory", "rest", "interpreter",
      "packages", "reviewed", "fixture", "dragon_hvac_supply_core"},
   dragon_hvac_photovoltaic_to_idf_object |-> {"target", "inventory", "rest",
      "interpreter", "packages"},
   dragon_hvac_source_system_to_idf_object |-> {"target", "inventory", "rest",
      "interpreter", "packages"},
   dragon_hvac_source_tower_core |-> {"target", "inventory", "rest", "interpreter",
      "packages", "reviewed", "fixture", "dragon_hvac_source_system_to_idf_object"},
   dragon_hvac_supply_group_to_idf_object |-> {"target", "inventory", "rest",
      "interpreter", "packages"}]
==============================================================================
