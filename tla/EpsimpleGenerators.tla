------------------------ MODULE EpsimpleGenerators ------------------------
(* The generators of the oracles about upstream's epsimple package.
   Every generator loads its support, then runs its main function. *)
EXTENDS ProfileGenerators

------------------------------------------------------------------------------
(* generate_epsimple_constants_numeric_oracle.py *)
ConstantsNumericLoadSupport == SiblingByConstants("schedule_type", <<>>)
ConstantsNumericInventory == ScheduleTypeInventory \o ReadRows \o DeclaresPin \o RowsPinned
ConstantsNumericPinnedModules(body) ==
  Pinned("root", "target") \o ImportFile("root") \o body
ConstantsNumericValidate ==
  InterpreterChecked \o DeclaresPin \o RowsPinned \o FactsPinned \o PortableFacts
\* A method of the model's source, cut out of its tree and run on a frame of pandas.
ConstantsNumericSourceUses ==
  Pinned("root", "rest") \o Use("root", "rest") \o Use("root", "packages")
ConstantsNumericBuild ==
  Pinned("root", "target") \o Pinned("root", "rest") \o RowsPinned \o
  ConstantsNumericPinnedModules(Probe \o ConstantsNumericSourceUses \o
      Observe("primary", {"target", "rest", "schedule_type"})) \o
  PackagesChecked \o Pinned("root", "target") \o ConstantsNumericValidate
ConstantsNumericMain ==
  InterpreterChecked \o PackagesChecked \o ConstantsNumericInventory \o
  ConstantsNumericBuild \o Write

------------------------------------------------------------------------------
(* generate_epsimple_construction_core_oracle.py *)
EpsimpleConstructionCoreLoadSupport == SiblingHashedAfter("schedule_type", <<>>)
EpsimpleConstructionCoreInventory ==
  HashInventory \o ParseInventory \o SameContent \o RowsPinned
EpsimpleConstructionCoreLocate == Pinned("root", "target")
EpsimpleConstructionCoreValidateSourceTree(place) == Pinned(place, "target")
EpsimpleConstructionCoreSnapshot(slot) == Observe(slot, {"target", "rest"})
EpsimpleConstructionCoreGenerationRuntime == PackagesChecked \o InterpreterChecked
EpsimpleConstructionCoreIsolatedImport(place, body) ==
  ImportTree(place) \o PinnedTree(place) \o body
EpsimpleConstructionCoreValidate ==
  InterpreterChecked \o RowsPinned \o DeclaresPin \o SameSignatures \o FactsPinned \o
  RowsPinned \o PortableFacts
EpsimpleConstructionCoreBuild ==
  DeclaresPin \o EpsimpleConstructionCoreGenerationRuntime \o
  Pinned("root", "schedule_type") \o EpsimpleConstructionCoreLocate \o
  EpsimpleConstructionCoreValidateSourceTree("root") \o
  EpsimpleConstructionCoreIsolatedImport("root", Observe("primary", {"target"}) \o
      SameSignatures \o Observe("primary", {"target", "rest"}) \o Semantics \o
      EpsimpleConstructionCoreSnapshot("primary")) \o
  CopyTree("root") \o EpsimpleConstructionCoreValidateSourceTree("copy") \o
  EpsimpleConstructionCoreIsolatedImport("copy", Observe("relocated", {"target"}) \o
      EpsimpleConstructionCoreSnapshot("relocated")) \o
  Alike \o FactsPinned \o PackagesChecked \o EpsimpleConstructionCoreValidate
EpsimpleConstructionCoreMain ==
  EpsimpleConstructionCoreInventory \o EpsimpleConstructionCoreBuild \o Write \o
  EpsimpleConstructionCoreValidate \o Reread

------------------------------------------------------------------------------
(* generate_epsimple_hvac_enums_base_oracle.py *)
HvacEnumsBaseLoadSupport == SiblingHashedAfter("schedule_type", <<>>)
HvacEnumsBaseInventory == HashInventory \o ParseInventory \o SameContent \o RowsPinned
HvacEnumsBaseLocate == Pinned("root", "target")
HvacEnumsBaseSignatures(slot) == Observe(slot, {"target"})
HvacEnumsBaseNativeReview == Pinned("root", "reviewed")
HvacEnumsBaseSafeTree == PortableFacts
HvacEnumsBaseRuntimeReceipt == PackagesChecked
HvacEnumsBaseGenerationRuntime == InterpreterChecked \o PackagesChecked
HvacEnumsBaseIsolatedImport(place, body) ==
  Pinned(place, "target") \o ImportTree(place) \o PinnedTree(place) \o body
HvacEnumsBaseValidate ==
  RowsPinned \o SameSignatures \o HvacEnumsBaseRuntimeReceipt \o InterpreterChecked \o
  HvacEnumsBaseNativeReview \o DeclaresPin \o FactsPinned \o HvacEnumsBaseSafeTree
HvacEnumsBaseBuild ==
  HvacEnumsBaseGenerationRuntime \o HvacEnumsBaseLocate \o Pinned("root", "target") \o
  HvacEnumsBaseIsolatedImport("root", HvacEnumsBaseSignatures("primary") \o
      Observe("primary", {"target", "rest"})) \o
  CopyTree("root") \o
  HvacEnumsBaseIsolatedImport("copy", Observe("relocated", {"target", "rest"})) \o Alike \o
  SameSignatures \o FactsPinned \o HvacEnumsBaseNativeReview \o
  HvacEnumsBaseRuntimeReceipt \o HvacEnumsBaseValidate
HvacEnumsBaseMain == HvacEnumsBaseInventory \o HvacEnumsBaseBuild \o Write

------------------------------------------------------------------------------
(* generate_epsimple_hvac_other_systems_oracle.py *)
HvacOtherSystemsLoadSupport ==
  SiblingHashedFirst("epsimple_hvac_enums_base", HvacEnumsBaseLoadSupport)
HvacOtherSystemsInventory == HashInventory \o ParseInventory \o SameContent \o RowsPinned
HvacOtherSystemsLocate == Pinned("root", "target")
HvacOtherSystemsSignatures(slot) == Observe(slot, {"target"})
HvacOtherSystemsNativeReview == Pinned("root", "reviewed")
HvacOtherSystemsValidate ==
  RowsPinned \o SameSignatures \o HvacEnumsBaseRuntimeReceipt \o InterpreterChecked \o
  HvacOtherSystemsNativeReview \o DeclaresPin \o FactsPinned \o HvacEnumsBaseSafeTree
HvacOtherSystemsBuild ==
  DeclaresPin \o HvacEnumsBaseGenerationRuntime \o
  Pinned("root", "epsimple_hvac_enums_base") \o HvacOtherSystemsLocate \o
  HvacEnumsBaseIsolatedImport("root", HvacOtherSystemsSignatures("primary") \o
      Observe("primary", {"target", "rest"}) \o Semantics) \o
  CopyTree("root") \o
  HvacEnumsBaseIsolatedImport("copy", HvacOtherSystemsSignatures("relocated") \o
      Observe("relocated", {"target", "rest"}) \o Semantics) \o
  Alike \o SameSignatures \o FactsPinned \o HvacOtherSystemsNativeReview \o
  HvacEnumsBaseRuntimeReceipt \o HvacOtherSystemsValidate
HvacOtherSystemsMain == HvacOtherSystemsInventory \o HvacOtherSystemsBuild \o Write

------------------------------------------------------------------------------
(* generate_epsimple_hvac_supply_system_oracle.py *)
HvacSupplySystemLoadSupport ==
  SiblingHashedFirst("epsimple_hvac_enums_base", HvacEnumsBaseLoadSupport)
HvacSupplySystemInventory == HashInventory \o ParseInventory \o SameContent \o RowsPinned
HvacSupplySystemLocate == Pinned("root", "target")
HvacSupplySystemSignatures(slot) == Observe(slot, {"target"})
HvacSupplySystemNativeReview == Pinned("root", "reviewed")
HvacSupplySystemValidate ==
  RowsPinned \o SameSignatures \o HvacEnumsBaseRuntimeReceipt \o InterpreterChecked \o
  HvacSupplySystemNativeReview \o DeclaresPin \o FactsPinned \o HvacEnumsBaseSafeTree
HvacSupplySystemBuild ==
  DeclaresPin \o HvacEnumsBaseGenerationRuntime \o
  Pinned("root", "epsimple_hvac_enums_base") \o HvacSupplySystemLocate \o
  HvacEnumsBaseIsolatedImport("root", HvacSupplySystemSignatures("primary") \o
      Observe("primary", {"target", "rest"}) \o Semantics) \o
  CopyTree("root") \o
  HvacEnumsBaseIsolatedImport("copy", HvacSupplySystemSignatures("relocated") \o
      Observe("relocated", {"target", "rest"}) \o Semantics) \o
  Alike \o SameSignatures \o FactsPinned \o HvacSupplySystemNativeReview \o
  HvacEnumsBaseRuntimeReceipt \o HvacSupplySystemValidate
HvacSupplySystemMain == HvacSupplySystemInventory \o HvacSupplySystemBuild \o Write

------------------------------------------------------------------------------
(* generate_epsimple_hvac_thermal_source_oracle.py *)
HvacThermalSourceLoadSupport ==
  SiblingHashedFirst("epsimple_hvac_enums_base", HvacEnumsBaseLoadSupport)
HvacThermalSourceInventory == HashInventory \o ParseInventory \o SameContent \o RowsPinned
HvacThermalSourceLocate == Pinned("root", "target")
HvacThermalSourceSignatures(slot) == Observe(slot, {"target"})
HvacThermalSourceNativeReview == Pinned("root", "reviewed")
HvacThermalSourceValidate ==
  RowsPinned \o SameSignatures \o HvacEnumsBaseRuntimeReceipt \o InterpreterChecked \o
  HvacThermalSourceNativeReview \o DeclaresPin \o FactsPinned \o HvacEnumsBaseSafeTree
HvacThermalSourceBuild ==
  DeclaresPin \o HvacEnumsBaseGenerationRuntime \o
  Pinned("root", "epsimple_hvac_enums_base") \o HvacThermalSourceLocate \o
  HvacEnumsBaseIsolatedImport("root", HvacThermalSourceSignatures("primary") \o
      Observe("primary", {"target", "rest"}) \o Semantics) \o
  CopyTree("root") \o
  HvacEnumsBaseIsolatedImport("copy", HvacThermalSourceSignatures("relocated") \o
      Observe("relocated", {"target", "rest"}) \o Semantics) \o
  Alike \o SameSignatures \o FactsPinned \o HvacThermalSourceNativeReview \o
  HvacEnumsBaseRuntimeReceipt \o HvacThermalSourceValidate
HvacThermalSourceMain == HvacThermalSourceInventory \o HvacThermalSourceBuild \o Write

------------------------------------------------------------------------------
(* generate_epsimple_identifier_conventions_oracle.py *)
IdentifierConventionsLoadSupport == SiblingHashedAfter("schedule_type", <<>>)
IdentifierConventionsSafeTree == PortableFacts
IdentifierConventionsInventory ==
  HashInventory \o ParseInventory \o DeclaresPin \o RowsPinned
IdentifierConventionsLocate == Pinned("root", "target")
IdentifierConventionsExecute == Observe("primary", {"target"})
IdentifierConventionsCaseFacts == FactsPinned
IdentifierConventionsIsolatedModules(body) ==
  Copy("root", "target") \o Pinned("copy", "target") \o Use("copy", "target") \o
  Copy("root", "target") \o Pinned("copy", "target") \o UseToo("copy", "target") \o body
IdentifierConventionsValidate ==
  IdentifierConventionsSafeTree \o IdentifierConventionsCaseFacts \o FactsPinned \o
  InterpreterChecked \o DeclaresPin \o RowsPinned
IdentifierConventionsBuild ==
  IdentifierConventionsLocate \o Pinned("root", "target") \o DeclaresPin \o
  Pinned("root", "schedule_type") \o
  IdentifierConventionsIsolatedModules(IdentifierConventionsExecute \o FactsPinned \o
      IdentifierConventionsCaseFacts \o FactsPinned) \o
  IdentifierConventionsValidate
IdentifierConventionsMain ==
  InterpreterChecked \o IdentifierConventionsInventory \o IdentifierConventionsBuild \o
  Write

------------------------------------------------------------------------------
(* generate_epsimple_model_core_oracle.py *)
ModelCoreLoadSupport == SiblingHashedAfter("schedule_type", <<>>)
ModelCoreInventory == HashInventory \o ParseInventory \o SameContent \o RowsPinned
ModelCoreLocate == Pinned("root", "target")
ModelCoreValidateSourceTree(place) == Pinned(place, "target")
ModelCoreAuditLoaded(place) == PinnedTree(place)
ModelCoreSignatures(slot) == Observe(slot, {"target"})
ModelCoreExecute(slot) == Observe(slot, {"target", "rest"}) \o Semantics
ModelCoreSafeTree == PortableFacts
ModelCoreRuntimeReceipt == PackagesChecked
ModelCoreIsolatedImport(place, body) ==
  ModelCoreValidateSourceTree(place) \o ImportTree(place) \o body
ModelCoreValidate ==
  RowsPinned \o SameSignatures \o InterpreterChecked \o DeclaresPin \o FactsPinned \o
  DeclaresPin \o FactsPinned \o ModelCoreSafeTree
ModelCoreBuild ==
  InterpreterChecked \o PackagesChecked \o ModelCoreLocate \o
  ModelCoreValidateSourceTree("root") \o
  ModelCoreIsolatedImport("root", ModelCoreSignatures("primary") \o
      ModelCoreExecute("primary") \o Observe("primary", {"target", "rest"}) \o
      ModelCoreAuditLoaded("root")) \o
  CopyTree("root") \o
  ModelCoreIsolatedImport("copy", ModelCoreSignatures("relocated") \o Observe("relocated",
      {"target", "rest"}) \o ModelCoreAuditLoaded("copy")) \o
  Alike \o SameSignatures \o FactsPinned \o ModelCoreRuntimeReceipt \o ModelCoreValidate
ModelCoreMain ==
  ModelCoreInventory \o ModelCoreBuild \o Write \o ModelCoreValidate \o Reread

------------------------------------------------------------------------------
(* generate_epsimple_model_result_oracle.py *)
ModelResultLoadSupport == SiblingHashedAfter("schedule_type", <<>>)
ModelResultInventory == HashInventory \o ParseInventory \o SameContent \o RowsPinned
ModelResultLocate == Pinned("root", "target")
ModelResultValidateSourceTree(place) == Pinned(place, "target")
ModelResultAuditLoaded(place) == PinnedTree(place)
ModelResultSignatures(slot) == Observe(slot, {"target"})
ModelResultExecute(slot) == Observe(slot, {"target", "rest"}) \o Semantics
ModelResultSafeTree == PortableFacts
ModelResultRuntimeReceipt == PackagesChecked
ModelResultGenerationRuntime == InterpreterChecked \o PackagesChecked
ModelResultIsolatedImport(place, body) ==
  ModelResultValidateSourceTree(place) \o ImportTree(place) \o body
ModelResultValidate ==
  RowsPinned \o SameSignatures \o RowsPinned \o InterpreterChecked \o DeclaresPin \o
  FactsPinned \o ModelResultSafeTree
ModelResultBuild ==
  DeclaresPin \o ModelResultGenerationRuntime \o ModelResultLocate \o
  ModelResultValidateSourceTree("root") \o
  ModelResultIsolatedImport("root", ModelResultSignatures("primary") \o
      ModelResultExecute("primary") \o ModelResultAuditLoaded("root")) \o
  CopyTree("root") \o
  ModelResultIsolatedImport("copy", ModelResultSignatures("relocated") \o
      ModelResultExecute("relocated") \o ModelResultAuditLoaded("copy")) \o
  Alike \o SameSignatures \o FactsPinned \o ModelResultRuntimeReceipt \o ModelResultValidate
ModelResultMain ==
  ModelResultInventory \o ModelResultBuild \o Write \o ModelResultValidate \o Reread

------------------------------------------------------------------------------
(* generate_epsimple_shape_core_oracle.py *)
ShapeCoreLoadSupport == SiblingHashedAfter("schedule_type", <<>>)
ShapeCoreInventory == HashInventory \o ParseInventory \o DeclaresPin \o RowsPinned
ShapeCoreLocate == Pinned("root", "target")
ShapeCoreAuditLoaded == PinnedTree("root")
ShapeCoreExecute == Observe("primary", {"target", "rest"}) \o Semantics
ShapeCoreValidate ==
  PortableFacts \o FactsPinned \o InterpreterChecked \o DeclaresPin \o RowsPinned
ShapeCoreBuild ==
  ShapeCoreLocate \o Pinned("root", "target") \o DeclaresPin \o
  Pinned("root", "schedule_type") \o ImportTree("root") \o ShapeCoreAuditLoaded \o
  ShapeCoreExecute \o FactsPinned \o ShapeCoreValidate
ShapeCoreMain ==
  PackagesChecked \o InterpreterChecked \o ShapeCoreInventory \o ShapeCoreBuild \o Write

------------------------------------------------------------------------------
\* The programs the script starts, one process each, and what each oracle names.
EpsimplePrograms ==
  [epsimple_constants_numeric |-> ConstantsNumericLoadSupport \o ConstantsNumericMain,
   epsimple_construction_core |-> EpsimpleConstructionCoreLoadSupport \o
      EpsimpleConstructionCoreMain,
   epsimple_hvac_enums_base |-> HvacEnumsBaseLoadSupport \o HvacEnumsBaseMain,
   epsimple_hvac_other_systems |-> HvacOtherSystemsLoadSupport \o HvacOtherSystemsMain,
   epsimple_hvac_supply_system |-> HvacSupplySystemLoadSupport \o HvacSupplySystemMain,
   epsimple_hvac_thermal_source |-> HvacThermalSourceLoadSupport \o HvacThermalSourceMain,
   epsimple_identifier_conventions |-> IdentifierConventionsLoadSupport \o
      IdentifierConventionsMain,
   epsimple_model_core |-> ModelCoreLoadSupport \o ModelCoreMain,
   epsimple_model_result |-> ModelResultLoadSupport \o ModelResultMain,
   epsimple_shape_core |-> ShapeCoreLoadSupport \o ShapeCoreMain]
EpsimpleNames ==
  [epsimple_constants_numeric |-> {"target", "inventory", "rest", "interpreter",
      "packages"},
   epsimple_construction_core |-> {"target", "inventory", "rest", "interpreter",
      "packages", "schedule_type"},
   epsimple_hvac_enums_base |-> {"target", "inventory", "rest", "interpreter",
      "packages", "reviewed", "schedule_type"},
   epsimple_hvac_other_systems |-> {"target", "inventory", "rest", "interpreter",
      "packages", "reviewed", "epsimple_hvac_enums_base"},
   epsimple_hvac_supply_system |-> {"target", "inventory", "rest", "interpreter",
      "packages", "reviewed", "epsimple_hvac_enums_base"},
   epsimple_hvac_thermal_source |-> {"target", "inventory", "rest", "interpreter",
      "packages", "reviewed", "epsimple_hvac_enums_base"},
   epsimple_identifier_conventions |-> {"target", "inventory", "interpreter", "packages",
      "schedule_type"},
   epsimple_model_core |-> {"target", "inventory", "rest", "interpreter", "packages"},
   epsimple_model_result |-> {"target", "inventory", "rest", "interpreter", "packages",
      "reviewed"},
   epsimple_shape_core |-> {"target", "inventory", "rest", "interpreter", "packages",
      "schedule_type"}]
==============================================================================
