-------------------------- MODULE ImugiGenerators --------------------------
(* The generators of the oracles about
   upstream's IDD and IDF objects, the IDD of EnergyPlus, and the reference model that closes the run.
   Every generator loads its support, then runs its main function. *)
EXTENDS ReferenceSteps

------------------------------------------------------------------------------
(* generate_idd_schema_oracle.py *)
IddSchemaMain ==
  InterpreterChecked \o UsePinned("root", "idd") \o Observe("primary", {"idd"}) \o Write

------------------------------------------------------------------------------
(* generate_imugi_idd_definitions_core_oracle.py *)
IddDefinitionsCoreInventory == HashInventory \o ParseInventory \o SameContent \o RowsPinned
IddDefinitionsCoreLocate == PinnedTree("root")
IddDefinitionsCoreSupportReceipt == Pinned("root", "idd_schema") \o Fixture("idd_schema")
IddDefinitionsCoreNativeReview == Pinned("root", "reviewed")
IddDefinitionsCoreSafeTree == PortableFacts
IddDefinitionsCoreIsolatedImport(body) ==
  PinnedTree("root") \o CopyTree("root") \o ImportTree("copy") \o PinnedTree("copy") \o body
IddDefinitionsCoreValidate ==
  RowsPinned \o SameSignatures \o RowsPinned \o InterpreterChecked \o
  IddDefinitionsCoreSupportReceipt \o RowsPinned \o IddDefinitionsCoreNativeReview \o
  DeclaresPin \o FactsPinned \o IddDefinitionsCoreSafeTree
IddDefinitionsCoreBuild ==
  DeclaresPin \o IddDefinitionsCoreLocate \o
  IddDefinitionsCoreIsolatedImport(Observe("primary", {"target"}) \o Observe("primary",
      {"target", "rest"}) \o Semantics) \o
  IddDefinitionsCoreIsolatedImport(Observe("relocated", {"target"}) \o
      Observe("relocated", {"target", "rest"}) \o Semantics) \o
  Alike \o SameSignatures \o FactsPinned \o IddDefinitionsCoreNativeReview \o
  IddDefinitionsCoreSupportReceipt \o IddDefinitionsCoreValidate
IddDefinitionsCoreMain ==
  InterpreterChecked \o PackagesChecked \o IddDefinitionsCoreInventory \o
  IddDefinitionsCoreBuild \o Write

------------------------------------------------------------------------------
(* generate_imugi_idd_schema_static_core_oracle.py *)
IddSchemaStaticCoreLoadSupport == SiblingHashedFirst("imugi_idd_definitions_core", <<>>)
IddSchemaStaticCoreInventory == IddDefinitionsCoreInventory \o ReadRows \o RowsPinned
IddSchemaStaticCoreSignatures(slot) == Observe(slot, {"target"})
IddSchemaStaticCoreNativeReview == Pinned("root", "reviewed")
IddSchemaStaticCoreValidate ==
  RowsPinned \o SameSignatures \o RowsPinned \o InterpreterChecked \o
  IddDefinitionsCoreSupportReceipt \o RowsPinned \o IddSchemaStaticCoreNativeReview \o
  DeclaresPin \o FactsPinned \o IddDefinitionsCoreSafeTree
IddSchemaStaticCoreBuild ==
  DeclaresPin \o IddDefinitionsCoreLocate \o
  IddDefinitionsCoreIsolatedImport(IddSchemaStaticCoreSignatures("primary") \o
      Observe("primary", {"target", "rest", "imugi_idd_definitions_core"}) \o Semantics) \o
  IddDefinitionsCoreIsolatedImport(IddSchemaStaticCoreSignatures("relocated") \o
      Observe("relocated", {"target", "rest", "imugi_idd_definitions_core"}) \o Semantics) \o
  Alike \o FactsPinned \o IddSchemaStaticCoreNativeReview \o
  IddDefinitionsCoreSupportReceipt \o IddSchemaStaticCoreValidate
IddSchemaStaticCoreMain ==
  InterpreterChecked \o PackagesChecked \o IddDefinitionsCoreLocate \o
  IddSchemaStaticCoreInventory \o IddSchemaStaticCoreBuild \o Write

------------------------------------------------------------------------------
(* generate_imugi_idf_object_core_oracle.py *)
IdfObjectCoreLoadSupport == Use("root", "imugi_idd_definitions_core")
IdfObjectCoreInventory == IddDefinitionsCoreInventory \o ReadRows \o RowsPinned
IdfObjectCoreValidate ==
  RowsPinned \o FactsPinned \o RowsPinned \o DeclaresPin \o SameSignatures \o DeclaresPin \o
  FactsPinned \o IddDefinitionsCoreSafeTree
IdfObjectCoreBuild ==
  Pinned("root", "reviewed") \o Pinned("root", "imugi_idd_definitions_core") \o
  Fixture("imugi_idd_definitions_core") \o Fixture("reference") \o
  IddDefinitionsCoreLocate \o
  IddDefinitionsCoreIsolatedImport(Observe("primary", {"target", "rest",
      "imugi_idd_definitions_core"}) \o Observe("primary", {"target"})) \o
  IddDefinitionsCoreIsolatedImport(Observe("relocated", {"target", "rest",
      "imugi_idd_definitions_core"}) \o Observe("relocated", {"target"})) \o
  Alike \o SameSignatures \o FactsPinned \o Pinned("root", "reviewed") \o
  IdfObjectCoreValidate
IdfObjectCoreMain ==
  InterpreterChecked \o PackagesChecked \o IdfObjectCoreInventory \o IdfObjectCoreBuild \o
  Write

------------------------------------------------------------------------------
(* generate_imugi_idf_object_list_core_oracle.py *)
IdfObjectListCoreLoadSupport ==
  Use("root", "imugi_idf_object_core") \o IdfObjectCoreLoadSupport
IdfObjectListCoreInventory == IdfObjectCoreInventory \o ReadRows \o RowsPinned
IdfObjectListCoreValidate ==
  RowsPinned \o InterpreterChecked \o FactsPinned \o DeclaresPin \o SameSignatures \o
  FactsPinned \o IddDefinitionsCoreSafeTree
IdfObjectListCoreBuild ==
  Pinned("root", "reviewed") \o Pinned("root", "imugi_idf_object_core") \o
  Fixture("imugi_idf_object_core") \o Fixture("imugi_idd_definitions_core") \o
  IddDefinitionsCoreLocate \o
  IddDefinitionsCoreIsolatedImport(Observe("primary", {"target", "rest",
      "imugi_idf_object_core"}) \o Observe("primary", {"target"})) \o
  IddDefinitionsCoreIsolatedImport(Observe("relocated", {"target", "rest",
      "imugi_idf_object_core"}) \o Observe("relocated", {"target"})) \o
  Alike \o SameSignatures \o FactsPinned \o Pinned("root", "reviewed") \o
  IdfObjectListCoreValidate
IdfObjectListCoreMain ==
  InterpreterChecked \o PackagesChecked \o IdfObjectListCoreInventory \o
  IdfObjectListCoreBuild \o Write

------------------------------------------------------------------------------
(* generate_reference.py *)
ReferenceMain ==
  InterpreterChecked \o ImportTree("root") \o Probe \o
  Observe("primary", {"target", "rest"}) \o Write

------------------------------------------------------------------------------
\* The programs the script starts, one process each, and what each oracle names.
ImugiPrograms ==
  [idd_schema |-> IddSchemaMain,
   imugi_idd_definitions_core |-> IddDefinitionsCoreMain,
   imugi_idd_schema_static_core |-> IddSchemaStaticCoreLoadSupport \o
      IddSchemaStaticCoreMain,
   imugi_idf_object_core |-> IdfObjectCoreLoadSupport \o IdfObjectCoreMain,
   imugi_idf_object_list_core |-> IdfObjectListCoreLoadSupport \o IdfObjectListCoreMain,
   reference |-> ReferenceMain]
ImugiNames ==
  [idd_schema |-> {"idd"},
   imugi_idd_definitions_core |-> {"target", "inventory", "rest", "interpreter",
      "packages", "reviewed", "fixture", "idd_schema"},
   imugi_idd_schema_static_core |-> {"target", "inventory", "rest", "interpreter",
      "packages", "reviewed", "imugi_idd_definitions_core"},
   imugi_idf_object_core |-> {"target", "inventory", "rest", "interpreter", "packages",
      "reviewed", "fixture", "imugi_idd_definitions_core"},
   imugi_idf_object_list_core |-> {"target", "inventory", "rest", "interpreter",
      "packages", "reviewed", "fixture", "imugi_idf_object_core"},
   reference |-> {"interpreter"}]
==============================================================================
