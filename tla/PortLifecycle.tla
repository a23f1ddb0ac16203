---------------------------- MODULE PortLifecycle ----------------------------
(***************************************************************************)
(* The lifecycle and administrative state machines of a governed port:     *)
(* lifecycle.cpp and administrative.cpp.  Both are pure functions there    *)
(* and pure operators here; the engine decides when to consult them.       *)
(***************************************************************************)

PortLifecycles ==
  {"UNCONFIGURED", "CONFIGURED", "ACTIVE", "ADMIN_DISABLED", "DRAINING",
   "MAINTENANCE", "REVALIDATION_REQUIRED", "SUPERSEDED", "RETIRED", "CONFLICTED"}

LifecycleTransitions ==
  {"Configure", "Activate", "AdminDisable", "AdminEnable", "BeginDrain",
   "CompleteDrain", "EnterMaintenance", "ExitMaintenance",
   "RequireRevalidation", "Supersede", "Retire", "Conflict", "Reconcile"}

\* Mutant of LiveStates: a port awaiting revalidation counts as live.
LiveOrRevalidating ==
  {"CONFIGURED", "ACTIVE", "ADMIN_DISABLED", "DRAINING", "MAINTENANCE",
   "REVALIDATION_REQUIRED"}

\* States in which a committed configuration is authoritative (is_live).
LiveStates == {"CONFIGURED", "ACTIVE", "ADMIN_DISABLED", "DRAINING", "MAINTENANCE"}

\* States only an explicit reconciliation leaves (requires_reconciliation).
FencedStates == {"REVALIDATION_REQUIRED", "SUPERSEDED", "CONFLICTED"}

IsLive(state) == state \in LiveStates

RequiresReconciliation(state) == state \in FencedStates

(***************************************************************************)
(* evaluate_transition: the states a transition is allowed from, and the   *)
(* state it leads to.  A retired port rejects every transition.            *)
(***************************************************************************)
TransitionSources(transition) ==
  CASE transition = "Configure"           -> {"UNCONFIGURED"}
    [] transition = "Activate"            -> LiveStates
    [] transition = "AdminDisable"        -> LiveStates
    [] transition = "AdminEnable"         -> {"ADMIN_DISABLED"}
    [] transition = "BeginDrain"          -> LiveStates
    [] transition = "CompleteDrain"       -> {"DRAINING"}
    [] transition = "EnterMaintenance"    -> LiveStates
    [] transition = "ExitMaintenance"     -> {"MAINTENANCE", "DRAINING"}
    [] transition = "RequireRevalidation" ->
         LiveStates \cup {"UNCONFIGURED", "REVALIDATION_REQUIRED"}
    [] transition = "Supersede" -> PortLifecycles \ {"SUPERSEDED", "RETIRED"}
    [] transition = "Retire"    -> PortLifecycles \ {"RETIRED"}
    [] transition = "Conflict"  -> PortLifecycles \ {"CONFLICTED", "RETIRED"}
    [] transition = "Reconcile" -> FencedStates

TransitionResult(transition) ==
  CASE transition \in {"Configure", "AdminEnable", "ExitMaintenance", "Reconcile"}
                                              -> "CONFIGURED"
    [] transition = "Activate"                -> "ACTIVE"
    [] transition = "AdminDisable"            -> "ADMIN_DISABLED"
    [] transition = "BeginDrain"              -> "DRAINING"
    [] transition \in {"CompleteDrain", "EnterMaintenance"} -> "MAINTENANCE"
    [] transition = "RequireRevalidation"     -> "REVALIDATION_REQUIRED"
    [] transition = "Supersede"               -> "SUPERSEDED"
    [] transition = "Retire"                  -> "RETIRED"
    [] transition = "Conflict"                -> "CONFLICTED"

TransitionAllowed(state, transition) == state \in TransitionSources(transition)

-----------------------------------------------------------------------------

AdministrativeStates ==
  {"ENABLED", "DISABLED", "DRAINING", "MAINTENANCE", "REVALIDATION_REQUIRED"}

AdministrativeOps ==
  {"Enable", "Disable", "Drain", "EnterMaintenance", "Resume", "RequireRevalidation"}

\* administrative_target: the administrative state an operation asks for.
AdministrativeTarget(op) ==
  CASE op \in {"Enable", "Resume"}   -> "ENABLED"
    [] op = "Disable"                -> "DISABLED"
    [] op = "Drain"                  -> "DRAINING"
    [] op = "EnterMaintenance"       -> "MAINTENANCE"
    [] op = "RequireRevalidation"    -> "REVALIDATION_REQUIRED"

\* lifecycle_transition_for: the lifecycle transition an operation performs.
LifecycleTransitionFor(op) ==
  CASE op \in {"Enable", "Resume"}   -> "Activate"
    [] op = "Disable"                -> "AdminDisable"
    [] op = "Drain"                  -> "BeginDrain"
    [] op = "EnterMaintenance"       -> "EnterMaintenance"
    [] op = "RequireRevalidation"    -> "RequireRevalidation"

=============================================================================
