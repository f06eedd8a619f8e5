----------------------- MODULE DragonShapeGenerators -----------------------
(* The generators of the oracles about upstream's shapes, zones and constructions.
   Every generator loads its support, then runs its main function. *)
EXTENDS DragonModelGenerators

------------------------------------------------------------------------------
(* generate_dragon_construction_air_boundary_core_oracle.py *)
ConstructionAirBoundaryCoreLoadSupport ==
  SiblingByConstants("dragon_hvac_supply_group_core", HvacSupplyGroupCoreLoadSupport)
ConstructionAirBoundaryCoreSourceInventory == ScheduleTypeInventory
ConstructionAirBoundaryCoreInventory ==
  HashInventory \o ReadRows \o ConstructionAirBoundaryCoreSourceInventory \o SameContent \o
  RowsPinned
ConstructionAirBoundaryCoreCaseFacts == FactsPinned
ConstructionAirBoundaryCoreValidate ==
  PortableFacts \o ConstructionAirBoundaryCoreCaseFacts \o FactsPinned \o RowsPinned \o
  InterpreterChecked \o RowsPinned \o DeclaresPin
ConstructionAirBoundaryCoreBuild ==
  PinnedTree("root") \o Pinned("root", "target") \o
  ModelAssemblyPinnedModules("root", SameSignatures \o Observe("primary", {"target",
      "rest"}) \o Semantics \o FactsPinned \o ConstructionAirBoundaryCoreCaseFacts \o
      FactsPinned \o PackagesChecked \o PinnedTree("root")) \o
  ConstructionAirBoundaryCoreValidate
ConstructionAirBoundaryCoreMain ==
  InterpreterChecked \o PackagesChecked \o ConstructionAirBoundaryCoreInventory \o
  ConstructionAirBoundaryCoreBuild \o Write

------------------------------------------------------------------------------
(* generate_dragon_construction_core_oracle.py *)
DragonConstructionCoreLoadSupport ==
  SiblingByConstants("dragon_construction_air_boundary_core",
      ConstructionAirBoundaryCoreLoadSupport)
DragonConstructionCoreSourceInventory == ScheduleTypeInventory
DragonConstructionCoreInventory ==
  HashInventory \o ReadRows \o DragonConstructionCoreSourceInventory \o SameContent \o
  RowsPinned
DragonConstructionCoreLocate == PinnedTree("root")
DragonConstructionCoreValidate ==
  PortableFacts \o FactsPinned \o InterpreterChecked \o RowsPinned \o DeclaresPin
DragonConstructionCoreBuild ==
  DragonConstructionCoreLocate \o PinnedTree("root") \o Pinned("root", "target") \o
  ModelAssemblyPinnedModules("root", Observe("primary", {"target"}) \o SameSignatures \o
      Observe("primary", {"target", "rest"}) \o Semantics \o FactsPinned \o PackagesChecked \o
      PinnedTree("root")) \o
  DragonConstructionCoreValidate
DragonConstructionCoreMain ==
  InterpreterChecked \o PackagesChecked \o DragonConstructionCoreInventory \o
  DragonConstructionCoreBuild \o Write

------------------------------------------------------------------------------
(* generate_dragon_construction_to_idf_object_oracle.py *)
ConstructionToIdfObjectLoadSupport ==
  SiblingByConstants("dragon_hvac_supply_group_core", HvacSupplyGroupCoreLoadSupport)
ConstructionToIdfObjectInventory == ScheduleTypeInventory \o SameContent \o RowsPinned
ConstructionToIdfObjectExecute == Observe("primary", {"target", "rest"}) \o Semantics
ConstructionToIdfObjectExpectedFacts == FactsPinned
ConstructionToIdfObjectValidate ==
  PortableFacts \o ConstructionToIdfObjectExpectedFacts \o FactsPinned \o
  InterpreterChecked \o DeclaresPin \o RowsPinned
ConstructionToIdfObjectBuild ==
  PinnedTree("root") \o DeclaresPin \o RowsPinned \o PinnedTree("root") \o
  ModelAssemblyPinnedModules("root", Pinned("root", "target") \o
      ConstructionToIdfObjectExecute \o ConstructionToIdfObjectExpectedFacts \o
      FactsPinned) \o
  PackagesChecked \o PinnedTree("root") \o ConstructionToIdfObjectValidate
ConstructionToIdfObjectMain ==
  InterpreterChecked \o PackagesChecked \o ConstructionToIdfObjectInventory \o
  ConstructionToIdfObjectBuild \o Write

------------------------------------------------------------------------------
(* generate_dragon_shape_geometry_core_oracle.py *)
ShapeGeometryCoreLoadSupport ==
  SiblingByConstants("dragon_hvac_supply_group_core", HvacSupplyGroupCoreLoadSupport)
ShapeGeometryCoreInventory == ReadRows \o ScheduleTypeInventory \o SameContent \o RowsPinned
ShapeGeometryCoreExecute == Observe("primary", {"target", "rest"}) \o Semantics
ShapeGeometryCoreLocate == PinnedTree("root")
ShapeGeometryCoreCaseFacts == FactsPinned
ShapeGeometryCoreValidate ==
  PortableFacts \o ShapeGeometryCoreCaseFacts \o FactsPinned \o InterpreterChecked \o
  DeclaresPin \o RowsPinned
ShapeGeometryCoreBuild ==
  ShapeGeometryCoreLocate \o DeclaresPin \o RowsPinned \o PinnedTree("root") \o
  ModelAssemblyPinnedModules("root", Observe("primary", {"target"}) \o SameSignatures \o
      ShapeGeometryCoreExecute \o FactsPinned \o ShapeGeometryCoreCaseFacts \o FactsPinned \o
      PackagesChecked \o PinnedTree("root")) \o
  ShapeGeometryCoreValidate
ShapeGeometryCoreMain ==
  InterpreterChecked \o PackagesChecked \o ShapeGeometryCoreInventory \o
  ShapeGeometryCoreBuild \o Write

------------------------------------------------------------------------------
(* generate_dragon_shape_opening_adjacency_core_oracle.py *)
ShapeOpeningAdjacencyCoreLoadSupport ==
  SiblingByConstants("dragon_hvac_supply_group_core", HvacSupplyGroupCoreLoadSupport)
ShapeOpeningAdjacencyCoreInventory ==
  ReadRows \o ScheduleTypeInventory \o SameContent \o RowsPinned
ShapeOpeningAdjacencyCoreExecute == Observe("primary", {"target", "rest"}) \o Semantics
ShapeOpeningAdjacencyCoreLocate == PinnedTree("root")
ShapeOpeningAdjacencyCoreCaseFacts == FactsPinned
ShapeOpeningAdjacencyCoreValidate ==
  PortableFacts \o ShapeOpeningAdjacencyCoreCaseFacts \o FactsPinned \o RowsPinned \o
  InterpreterChecked \o DeclaresPin \o RowsPinned
ShapeOpeningAdjacencyCoreBuild ==
  ShapeOpeningAdjacencyCoreLocate \o DeclaresPin \o RowsPinned \o
  Pinned("root", "target") \o
  ModelAssemblyPinnedModules("root", Observe("primary", {"target"}) \o SameSignatures \o
      ShapeOpeningAdjacencyCoreExecute \o FactsPinned \o ShapeOpeningAdjacencyCoreCaseFacts \o
      FactsPinned \o PackagesChecked \o PinnedTree("root")) \o
  ShapeOpeningAdjacencyCoreValidate
ShapeOpeningAdjacencyCoreMain ==
  InterpreterChecked \o PackagesChecked \o ShapeOpeningAdjacencyCoreInventory \o
  ShapeOpeningAdjacencyCoreBuild \o Write

------------------------------------------------------------------------------
(* generate_dragon_shape_shading_material_to_idf_object_oracle.py *)
ShapeShadingMaterialToIdfObjectLoadSupport ==
  SiblingByConstants("dragon_hvac_supply_group_core", HvacSupplyGroupCoreLoadSupport)
ShapeShadingMaterialToIdfObjectInventory ==
  ScheduleTypeInventory \o SameContent \o RowsPinned
ShapeShadingMaterialToIdfObjectExecute ==
  Observe("primary", {"target", "rest"}) \o Semantics
ShapeShadingMaterialToIdfObjectExpectedFacts == FactsPinned
ShapeShadingMaterialToIdfObjectValidate ==
  PortableFacts \o ShapeShadingMaterialToIdfObjectExpectedFacts \o FactsPinned \o
  InterpreterChecked \o DeclaresPin \o RowsPinned
ShapeShadingMaterialToIdfObjectBuild ==
  PinnedTree("root") \o DeclaresPin \o RowsPinned \o PinnedTree("root") \o
  ModelAssemblyPinnedModules("root", ShapeShadingMaterialToIdfObjectExecute \o
      ShapeShadingMaterialToIdfObjectExpectedFacts \o FactsPinned) \o
  PackagesChecked \o PinnedTree("root") \o ShapeShadingMaterialToIdfObjectValidate
ShapeShadingMaterialToIdfObjectMain ==
  InterpreterChecked \o PackagesChecked \o ShapeShadingMaterialToIdfObjectInventory \o
  ShapeShadingMaterialToIdfObjectBuild \o Write

------------------------------------------------------------------------------
(* generate_dragon_shape_surface_to_idf_object_oracle.py *)
ShapeSurfaceToIdfObjectLoadSupport ==
  SiblingByConstants("dragon_hvac_supply_group_core", HvacSupplyGroupCoreLoadSupport)
ShapeSurfaceToIdfObjectInventory == ScheduleTypeInventory \o SameContent \o RowsPinned
ShapeSurfaceToIdfObjectExecute == Observe("primary", {"target", "rest"}) \o Semantics
ShapeSurfaceToIdfObjectCaseFacts == FactsPinned
ShapeSurfaceToIdfObjectValidate ==
  PortableFacts \o ShapeSurfaceToIdfObjectCaseFacts \o InterpreterChecked \o DeclaresPin \o
  RowsPinned
ShapeSurfaceToIdfObjectBuild ==
  PinnedTree("root") \o DeclaresPin \o RowsPinned \o PinnedTree("root") \o
  ModelAssemblyPinnedModules("root", Observe("primary", {"target"}) \o SameSignatures \o
      ShapeSurfaceToIdfObjectExecute \o FactsPinned \o ShapeSurfaceToIdfObjectCaseFacts \o
      PackagesChecked \o PinnedTree("root")) \o
  ShapeSurfaceToIdfObjectValidate
ShapeSurfaceToIdfObjectMain ==
  InterpreterChecked \o PackagesChecked \o ShapeSurfaceToIdfObjectInventory \o
  ShapeSurfaceToIdfObjectBuild \o Write

------------------------------------------------------------------------------
(* generate_dragon_shape_zone_core_oracle.py *)
ShapeZoneCoreLoadSupport ==
  SiblingByConstants("dragon_hvac_supply_group_core", HvacSupplyGroupCoreLoadSupport)
ShapeZoneCoreInventory == ReadRows \o ScheduleTypeInventory \o SameContent \o RowsPinned
ShapeZoneCoreExecute == Observe("primary", {"target", "rest"}) \o Semantics
ShapeZoneCoreLocate == PinnedTree("root")
ShapeZoneCoreCaseFacts == FactsPinned
ShapeZoneCoreValidate ==
  PortableFacts \o ShapeZoneCoreCaseFacts \o FactsPinned \o RowsPinned \o
  InterpreterChecked \o DeclaresPin \o RowsPinned
ShapeZoneCoreBuild ==
  ShapeZoneCoreLocate \o DeclaresPin \o RowsPinned \o PinnedTree("root") \o
  Pinned("root", "target") \o
  ModelAssemblyPinnedModules("root", Observe("primary", {"target"}) \o SameSignatures \o
      Observe("primary", {"target"}) \o SameSignatures \o ShapeZoneCoreExecute \o
      FactsPinned \o ShapeZoneCoreCaseFacts \o FactsPinned \o PackagesChecked \o
      PinnedTree("root")) \o
  ShapeZoneCoreValidate
ShapeZoneCoreMain ==
  InterpreterChecked \o PackagesChecked \o ShapeZoneCoreInventory \o ShapeZoneCoreBuild \o
  Write

------------------------------------------------------------------------------
(* generate_dragon_shape_zone_to_idf_object_oracle.py *)
ShapeZoneToIdfObjectLoadSupport ==
  SiblingByConstants("dragon_hvac_supply_group_core", HvacSupplyGroupCoreLoadSupport)
ShapeZoneToIdfObjectInventory == ScheduleTypeInventory \o SameContent \o RowsPinned
ShapeZoneToIdfObjectExecute == Observe("primary", {"target", "rest"}) \o Semantics
ShapeZoneToIdfObjectExpectedFacts == FactsPinned
ShapeZoneToIdfObjectValidate ==
  PortableFacts \o ShapeZoneToIdfObjectExpectedFacts \o FactsPinned \o InterpreterChecked \o
  DeclaresPin \o RowsPinned
ShapeZoneToIdfObjectBuild ==
  PinnedTree("root") \o DeclaresPin \o RowsPinned \o PinnedTree("root") \o
  ModelAssemblyPinnedModules("root", Observe("primary", {"target"}) \o SameSignatures \o
      ShapeZoneToIdfObjectExecute \o ShapeZoneToIdfObjectExpectedFacts \o FactsPinned) \o
  PackagesChecked \o PinnedTree("root") \o ShapeZoneToIdfObjectValidate
ShapeZoneToIdfObjectMain ==
  InterpreterChecked \o PackagesChecked \o ShapeZoneToIdfObjectInventory \o
  ShapeZoneToIdfObjectBuild \o Write

------------------------------------------------------------------------------
\* The programs the script starts, one process each, and what each oracle names.
DragonShapePrograms ==
  [dragon_construction_air_boundary_core |-> ConstructionAirBoundaryCoreLoadSupport \o
      ConstructionAirBoundaryCoreMain,
   dragon_construction_core |-> DragonConstructionCoreLoadSupport \o
      DragonConstructionCoreMain,
   dragon_construction_to_idf_object |-> ConstructionToIdfObjectLoadSupport \o
      ConstructionToIdfObjectMain,
   dragon_shape_geometry_core |-> ShapeGeometryCoreLoadSupport \o ShapeGeometryCoreMain,
   dragon_shape_opening_adjacency_core |-> ShapeOpeningAdjacencyCoreLoadSupport \o
      ShapeOpeningAdjacencyCoreMain,
   dragon_shape_shading_material_to_idf_object |->
      ShapeShadingMaterialToIdfObjectLoadSupport \o ShapeShadingMaterialToIdfObjectMain,
   dragon_shape_surface_to_idf_object |-> ShapeSurfaceToIdfObjectLoadSupport \o
      ShapeSurfaceToIdfObjectMain,
   dragon_shape_zone_core |-> ShapeZoneCoreLoadSupport \o ShapeZoneCoreMain,
   dragon_shape_zone_to_idf_object |-> ShapeZoneToIdfObjectLoadSupport \o
      ShapeZoneToIdfObjectMain]
DragonShapeNames ==
  [dragon_construction_air_boundary_core |-> {"target", "inventory", "rest",
      "interpreter", "packages"},
   dragon_construction_core |-> {"target", "inventory", "rest", "interpreter",
      "packages"},
   dragon_construction_to_idf_object |-> {"target", "inventory", "rest", "interpreter",
      "packages"},
   dragon_shape_geometry_core |-> {"target", "inventory", "rest", "interpreter",
      "packages"},
   dragon_shape_opening_adjacency_core |-> {"target", "inventory", "rest", "interpreter",
      "packages"},
   dragon_shape_shading_material_to_idf_object |-> {"target", "inventory", "rest",
      "interpreter", "packages"},
   dragon_shape_surface_to_idf_object |-> {"target", "inventory", "rest", "interpreter",
      "packages"},
   dragon_shape_zone_core |-> {"target", "inventory", "rest", "interpreter", "packages"},
   dragon_shape_zone_to_idf_object |-> {"target", "inventory", "rest", "interpreter",
      "packages"}]
==============================================================================
