------------------------- MODULE ProfileGenerators -------------------------
(* The generators of the oracles about
   the schedules, day schedules, rule sets and usage profiles of upstream.
   Every generator loads its support, then runs its main function. *)
EXTENDS ReferenceSteps

------------------------------------------------------------------------------
(* generate_day_schedule_metrics_oracle.py *)
DayScheduleMetricsInventory == ParseInventory \o SameContent \o RowsPinned
DayScheduleMetricsMain ==
  InterpreterChecked \o DayScheduleMetricsInventory \o ImportTree("root") \o
  Pinned("root", "target") \o RowsPinned \o Probe \o
  Observe("primary", {"target", "rest"}) \o Write

------------------------------------------------------------------------------
(* generate_day_schedule_core_oracle.py *)
DayScheduleCoreLoadSupport == SiblingByConstants("day_schedule_metrics", <<>>)
DayScheduleCoreExecute == Observe("primary", {"target", "rest"}) \o Semantics
DayScheduleCoreValidate == DeclaresPin \o InterpreterChecked \o RowsPinned \o PortableFacts
DayScheduleCoreMain ==
  InterpreterChecked \o DayScheduleMetricsInventory \o RowsPinned \o ImportTree("root") \o
  Pinned("root", "target") \o RowsPinned \o Probe \o DayScheduleCoreExecute \o
  DayScheduleCoreValidate \o Write

------------------------------------------------------------------------------
(* generate_schedule_type_oracle.py *)
ScheduleTypeInventory == ParseInventory \o SameContent \o RowsPinned
ScheduleTypeMain ==
  InterpreterChecked \o ScheduleTypeInventory \o ImportTree("root") \o
  Pinned("root", "target") \o RowsPinned \o Probe \o
  Observe("primary", {"target", "rest"}) \o Write

------------------------------------------------------------------------------
(* generate_day_schedule_operations_oracle.py *)
DayScheduleOperationsInventory == ParseInventory \o SameContent \o RowsPinned
DayScheduleOperationsBuild ==
  ImportTree("root") \o Pinned("root", "target") \o RowsPinned \o Probe \o
  Observe("primary", {"target", "rest"}) \o Semantics \o PortableFacts
DayScheduleOperationsMain ==
  InterpreterChecked \o DayScheduleOperationsInventory \o DayScheduleOperationsBuild \o
  Write

------------------------------------------------------------------------------
(* generate_profile_residual_oracle.py *)
ProfileResidualLoadSupport ==
  SiblingByConstants("day_schedule_core", DayScheduleCoreLoadSupport)
ProfileResidualInventory == DayScheduleMetricsInventory \o RowsPinned
ProfileResidualExecute ==
  Observe("primary", {"target", "rest", "day_schedule_core"}) \o Semantics
ProfileResidualCheckProfile == Semantics
ProfileResidualValidate ==
  DeclaresPin \o InterpreterChecked \o RowsPinned \o ProfileResidualCheckProfile \o
  RowsPinned \o PortableFacts
ProfileResidualMain ==
  InterpreterChecked \o ProfileResidualInventory \o ImportTree("root") \o
  Pinned("root", "target") \o RowsPinned \o Probe \o ProfileResidualExecute \o
  ProfileResidualValidate \o Write

------------------------------------------------------------------------------
(* generate_rule_set_core_oracle.py *)
RuleSetCoreLoadSupport ==
  SiblingByConstants("day_schedule_core", DayScheduleCoreLoadSupport)
RuleSetCoreExecute ==
  Observe("primary", {"target", "rest", "day_schedule_core"}) \o Semantics
RuleSetCoreValidate == DeclaresPin \o InterpreterChecked \o RowsPinned \o PortableFacts
RuleSetCoreMain ==
  InterpreterChecked \o DayScheduleMetricsInventory \o RowsPinned \o ImportTree("root") \o
  Pinned("root", "target") \o RowsPinned \o Probe \o RuleSetCoreExecute \o
  RuleSetCoreValidate \o Write

------------------------------------------------------------------------------
(* generate_rule_set_operations_oracle.py *)
RuleSetOperationsLoadSupport == SiblingByConstants("day_schedule_operations", <<>>)
RuleSetOperationsInventory == DayScheduleOperationsInventory \o ReadRows \o RowsPinned
RuleSetOperationsExecute ==
  Observe("primary", {"target", "rest", "day_schedule_operations"}) \o Semantics
RuleSetOperationsMain ==
  InterpreterChecked \o RuleSetOperationsInventory \o ImportTree("root") \o
  Pinned("root", "target") \o RowsPinned \o Probe \o RuleSetOperationsExecute \o
  PortableFacts \o Write

------------------------------------------------------------------------------
(* generate_schedule_operations_oracle.py *)
ScheduleOperationsLoadSupport ==
  SiblingByConstants("rule_set_operations", RuleSetOperationsLoadSupport)
ScheduleOperationsInventory == RuleSetOperationsInventory \o ReadRows \o RowsPinned
ScheduleOperationsExecute ==
  Observe("primary", {"target", "rest", "rule_set_operations"}) \o Semantics
ScheduleOperationsMain ==
  InterpreterChecked \o ScheduleOperationsInventory \o ImportTree("root") \o
  Pinned("root", "target") \o RowsPinned \o Probe \o ScheduleOperationsExecute \o
  PortableFacts \o Write

------------------------------------------------------------------------------
(* generate_schedule_core_oracle.py *)
ScheduleCoreLoadSupport ==
  SiblingByConstants("schedule_operations", ScheduleOperationsLoadSupport)
ScheduleCoreInventory == ScheduleOperationsInventory \o ReadRows \o RowsPinned
ScheduleCoreExecute == Observe("primary", {"target", "rest"}) \o Semantics
ScheduleCoreBuild ==
  ImportTree("root") \o Pinned("root", "target") \o RowsPinned \o Probe \o
  ScheduleCoreExecute \o PortableFacts
ScheduleCoreMain ==
  InterpreterChecked \o ScheduleCoreInventory \o ScheduleCoreBuild \o Write

------------------------------------------------------------------------------
(* generate_usage_profile_core_oracle.py *)
UsageProfileCoreLoadSupport ==
  SiblingByConstants("day_schedule_core", DayScheduleCoreLoadSupport)
UsageProfileCoreInventory == DayScheduleMetricsInventory \o RowsPinned
UsageProfileCoreExecute ==
  Observe("primary", {"target", "rest", "day_schedule_core"}) \o Semantics
UsageProfileCoreCheckEquivalent == Semantics
UsageProfileCoreCheckToDragon == Semantics
UsageProfileCoreValidate ==
  DeclaresPin \o InterpreterChecked \o RowsPinned \o UsageProfileCoreCheckEquivalent \o
  UsageProfileCoreCheckToDragon \o RowsPinned
UsageProfileCoreMain ==
  InterpreterChecked \o UsageProfileCoreInventory \o ImportTree("root") \o
  Pinned("root", "target") \o RowsPinned \o Probe \o UsageProfileCoreExecute \o
  UsageProfileCoreValidate \o Write

------------------------------------------------------------------------------
(* generate_usage_profile_schedule_oracle.py *)
UsageProfileScheduleMain ==
  ImportTree("root") \o Observe("primary", {"target", "rest"}) \o Write

------------------------------------------------------------------------------
\* The programs the script starts, one process each, and what each oracle names.
ProfilePrograms ==
  [day_schedule_metrics |-> DayScheduleMetricsMain,
   day_schedule_core |-> DayScheduleCoreLoadSupport \o DayScheduleCoreMain,
   schedule_type |-> ScheduleTypeMain,
   day_schedule_operations |-> DayScheduleOperationsMain,
   profile_residual |-> ProfileResidualLoadSupport \o ProfileResidualMain,
   rule_set_core |-> RuleSetCoreLoadSupport \o RuleSetCoreMain,
   rule_set_operations |-> RuleSetOperationsLoadSupport \o RuleSetOperationsMain,
   schedule_operations |-> ScheduleOperationsLoadSupport \o ScheduleOperationsMain,
   schedule_core |-> ScheduleCoreLoadSupport \o ScheduleCoreMain,
   usage_profile_core |-> UsageProfileCoreLoadSupport \o UsageProfileCoreMain,
   usage_profile_schedule |-> UsageProfileScheduleMain]
ProfileNames ==
  [day_schedule_metrics |-> {"target", "inventory", "interpreter"},
   day_schedule_core |-> {"target", "inventory", "interpreter"},
   schedule_type |-> {"target", "inventory", "interpreter"},
   day_schedule_operations |-> {"target", "inventory", "interpreter"},
   profile_residual |-> {"target", "inventory", "interpreter"},
   rule_set_core |-> {"target", "inventory", "interpreter"},
   rule_set_operations |-> {"target", "inventory", "interpreter"},
   schedule_operations |-> {"target", "inventory", "interpreter"},
   schedule_core |-> {"target", "inventory", "interpreter"},
   usage_profile_core |-> {"target", "inventory", "interpreter"},
   usage_profile_schedule |-> {}]
==============================================================================
