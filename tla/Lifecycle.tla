----------------------------- MODULE Lifecycle ------------------------------
(***************************************************************************)
(* The lifecycle table of crates/flux-core/src/runtime.rs: what each       *)
(* stimulus makes of each phase (step), which commands ask for a           *)
(* convergence (needs_converge), and how the phase is rebuilt from the     *)
(* facts the reactor can observe (Phase::observe).                         *)
(*                                                                         *)
(* Command identities (plan's CommandId) only number the commands and are  *)
(* left out.  A row of the table is [phase, commands].                     *)
(***************************************************************************)

Phase == {"Disabled", "Stopping", "Inactive", "Paused", "Activating", "Active"}

Off == {"Disabled", "Stopping"}
Resting == {"Inactive", "Paused"}
Running == {"Activating", "Active"}

Stimulus == {"Status", "Check", "Bootstrap", "Enable", "Disable", "Reload", "Sighup",
    "Stop", "Sigterm", "NewInterface", "LastInterfaceGone", "InterfaceGone",
    "AddressChange", "CaptureSideDrift", "CoreDrift", "NetlinkOverrun",
    "FluxTomlChanged", "TemplateOrListChanged", "PackagesChanged", "SsidPause",
    "SsidResume", "EngineExited", "CurrentGenerationFault", "StaleOrDuplicateFault",
    "DebounceExpired", "BackoffExpired", "ReadinessBackoff", "ActivationCommitted",
    "ActivationFailed", "EngineStopped"}

With(p, cs) == [phase |-> p, commands |-> cs]
Stay(p) == With(p, {})
Unexpected(p) == With(p, {"IgnoreUnexpected"})

\* Rows whose cells are: nothing while off, one command otherwise.
UnlessOff(p, c) == IF p \in Off THEN Stay(p) ELSE With(p, {c})

\* Rows that do nothing while off or activating, and differ only when active.
Cells(p, off, resting, active) ==
    CASE p \in Off -> With(p, off)
      [] p \in Resting -> With(p, resting)
      [] p = "Activating" -> Stay(p)
      [] p = "Active" -> With(p, active)

\* The engine is gone or must go: capture is frozen, the start is retried.
Restart(p) ==
    IF p \in Running
    THEN With("Inactive", {"PublishInactive", "RestartWithBackoff"})
    ELSE With(p, {"RestartWithBackoff"})

step(p, s) ==
    CASE s \in {"Status", "Check"} -> Stay(p)
      [] s = "Bootstrap" ->
            IF p \in Running THEN Unexpected(p) ELSE UnlessOff(p, "AttemptActivation")
      [] s = "Enable" ->
            IF p = "Disabled" THEN With("Inactive", {"AttemptActivation"}) ELSE Stay(p)
      [] s = "Disable" ->
            IF p \in Off THEN Stay(p)
            ELSE With("Stopping", {"StopEngine"} \cup
                                  (IF p = "Active" THEN {"PublishInactive"} ELSE {}))
      [] s \in {"Reload", "Sighup"} ->
            Cells(p, {"RevalidateOnly"}, {"AttemptActivation"},
                  {"PolicyTransaction", "EngineCandidateSwitch"})
      [] s \in {"Stop", "Sigterm"} ->
            IF p \in Off THEN With(p, {"ExitProcess"})
            ELSE With("Stopping", {"PublishInactive", "StopEngine", "ExitProcess"})
      [] s = "NewInterface" -> Cells(p, {}, {"ReevaluateAdmission"}, {"AdmitAndAttach"})
      [] s = "LastInterfaceGone" ->
            IF p = "Active" THEN With("Inactive", {"PublishInactive", "ExcludeInterface"})
            ELSE Cells(p, {}, {"ReevaluateAdmission"}, {})
      [] s = "InterfaceGone" -> Cells(p, {}, {"ReevaluateAdmission"}, {"ExcludeInterface"})
      [] s = "AddressChange" -> UnlessOff(p, "UpdateSelfAddresses")
      [] s = "CaptureSideDrift" ->
            UnlessOff(p, IF p = "Active" THEN "ReattachCaptureLocally"
                                         ELSE "RunPendingConvergence")
      [] s = "CoreDrift" ->
            IF p = "Active"
            THEN With("Activating", {"PublishInactive", "RunPendingConvergence"})
            ELSE UnlessOff(p, "RunPendingConvergence")
      [] s = "NetlinkOverrun" -> UnlessOff(p, "FullRedump")
      [] s = "FluxTomlChanged" ->
            Cells(p, {"RevalidateOnly"}, {"AttemptActivation"}, {"PolicyTransaction"})
      [] s = "TemplateOrListChanged" ->
            Cells(p, {"RevalidateOnly"}, {"AttemptActivation"}, {"RegenerateThenSwitch"})
      [] s = "PackagesChanged" -> Cells(p, {}, {"ReparseThenPolicy"}, {"ReparseThenPolicy"})
      [] s = "SsidPause" ->
            CASE p \in Off -> Stay(p)
              [] p \in Resting -> Stay("Paused")
              [] OTHER -> With("Paused", {"PublishInactive", "StopEngine"})
      [] s = "SsidResume" ->
            IF p = "Paused" THEN With("Inactive", {"AttemptActivation"}) ELSE Stay(p)
      [] s = "EngineExited" ->
            CASE p = "Disabled" -> Unexpected(p)
              [] p = "Stopping" -> Stay("Disabled")
              [] OTHER -> Restart(p)
      [] s = "CurrentGenerationFault" ->
            CASE p = "Disabled" -> Unexpected(p)
              [] p \in Running -> Restart(p)
              [] OTHER -> With(p, {"ClearLatchOnly"})
      [] s = "StaleOrDuplicateFault" -> With(p, {"ClearLatchOnly"})
      [] s = "DebounceExpired" -> UnlessOff(p, "RunPendingConvergence")
      [] s = "BackoffExpired" -> UnlessOff(p, "RetryActivation")
      [] s = "ReadinessBackoff" -> UnlessOff(p, "RecheckSockDiag")
      [] s = "ActivationCommitted" ->
            IF p = "Activating" THEN Stay("Active") ELSE Unexpected(p)
      [] s = "ActivationFailed" ->
            IF p = "Activating" THEN With("Inactive", {"PublishInactive"})
            ELSE Unexpected(p)
      [] s = "EngineStopped" ->
            IF p = "Stopping" THEN Stay("Disabled") ELSE Unexpected(p)

\* CommandKind::needs_converge.
NeedsConverge == {"AttemptActivation", "PolicyTransaction", "EngineCandidateSwitch",
    "ReevaluateAdmission", "AdmitAndAttach", "ExcludeInterface", "UpdateSelfAddresses",
    "ReattachCaptureLocally", "FullRedump", "RegenerateThenSwitch", "ReparseThenPolicy",
    "RunPendingConvergence", "RetryActivation"}

\* freezes_capture.
FreezesCapture(cs) == "PublishInactive" \in cs

\* Phase::observe: o holds the facts of an Observation.
observe(o) ==
    CASE o.disable_present \/ o.shutdown ->
            IF o.engine_present \/ o.convergence_busy THEN "Stopping" ELSE "Disabled"
      [] ~(o.disable_present \/ o.shutdown) /\ o.ssid_paused -> "Paused"
      [] OTHER ->
            CASE o.dataplane_active /\ o.engine_present /\ ~o.awaiting_commit -> "Active"
              [] OTHER ->
                    IF o.engine_present \/ o.awaiting_commit \/ o.convergence_busy
                    THEN "Activating" ELSE "Inactive"
=============================================================================
