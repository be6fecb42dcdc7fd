---------------------- MODULE SupplierProductMapping ----------------------
(***************************************************************************)
(* The mapping knowledge of a SupplierProduct and the pure decision rules  *)
(* of the purchases domain: what each of the five mapping decisions does   *)
(* to the knowledge, when it is refused and with which error, and how the  *)
(* effective status of a purchase line is derived.                         *)
(*                                                                         *)
(* A request m carries op, target (ResourceID), current (the expected      *)
(* current ResourceID), expected (the expected revision) and reason        *)
(* (whether the decision states one). Actor, origin and time of a decision *)
(* are checked by the public seam before a request reaches the domain, so  *)
(* the reason is the only part of the metadata that can still be missing.  *)
(***************************************************************************)
EXTENDS Naturals

\* A nil ResourceID. Resource identifiers are positive.
NoResource == 0

Unresolved == [resource |-> NoResource, conflict |-> FALSE]

Confirmed(r) == [resource |-> r, conflict |-> FALSE]

MappingOperations == {"CONFIRM", "CORRECT", "EXCEPTIONAL_UNLINK",
                      "REPORT_IDENTITY_CONFLICT", "RESOLVE_IDENTITY_CONFLICT"}

Overrides == {"NONE", "NO_APLICA", "CONFLICTO"}

KnowledgeState(k) == IF k.conflict THEN "IDENTITY_CONFLICT"
                     ELSE IF k.resource = NoResource THEN "UNRESOLVED"
                     ELSE "CONFIRMED"

\* Resource activity is an input, never part of the stored knowledge.
State(k, active) == IF KnowledgeState(k) = "CONFIRMED" /\ ~active
                    THEN "SUSPENDED"
                    ELSE KnowledgeState(k)

Cause(k, active) ==
  CASE State(k, active) = "IDENTITY_CONFLICT" -> "IDENTITY_CONFLICT"
    [] State(k, active) = "SUSPENDED"         -> "RESOURCE_INACTIVE"
    [] State(k, active) = "UNRESOLVED"        -> "UNRESOLVED"
    [] State(k, active) = "CONFIRMED"         -> "NONE"

\* The line status the domain derives; an override has precedence.
EffectiveLineStatus(override, k, active) ==
  CASE override = "NO_APLICA" -> <<"NO_APLICA", "LINE_NOT_APPLICABLE">>
    [] override = "CONFLICTO" -> <<"CONFLICTO", "LINE_CONFLICT_OVERRIDE">>
    [] override = "NONE"      ->
         << CASE State(k, active) = "IDENTITY_CONFLICT" -> "CONFLICTO"
              [] State(k, active) = "SUSPENDED"         -> "SUSPENDIDO"
              [] State(k, active) = "UNRESOLVED"        -> "PENDIENTE"
              [] State(k, active) = "CONFIRMED"         -> "VINCULADO",
            Cause(k, active) >>

\* Mutant: an inactive resource hides the override.
WorkbenchStatusInactiveFirst(override, linked, k, known, active) ==
  IF linked /\ k.resource # NoResource /\ known /\ ~active
  THEN <<"SUSPENDIDO", "RESOURCE_INACTIVE">>
  ELSE EffectiveLineStatus(override, k, active)

(***************************************************************************)
(* The same status as the workbench query computes it in SQL, one CASE     *)
(* column for the status and one for the cause, from the line LEFT JOINed  *)
(* with its product and the product's resource. linked and known say that  *)
(* the joins found a row; COALESCE gives their columns a default.          *)
(***************************************************************************)
WorkbenchStatus(override, linked, k, known, active) ==
  LET conflict  == linked /\ k.conflict
      hasTarget == linked /\ k.resource # NoResource
      inactive  == hasTarget /\ known /\ ~active
  IN  << IF override = "NO_APLICA" THEN "NO_APLICA"
         ELSE IF override = "CONFLICTO" THEN "CONFLICTO"
         ELSE IF conflict THEN "CONFLICTO"
         ELSE IF inactive THEN "SUSPENDIDO"
         ELSE IF ~hasTarget THEN "PENDIENTE"
         ELSE "VINCULADO",
         IF override = "NO_APLICA" THEN "LINE_NOT_APPLICABLE"
         ELSE IF override = "CONFLICTO" THEN "LINE_CONFLICT_OVERRIDE"
         ELSE IF conflict THEN "IDENTITY_CONFLICT"
         ELSE IF inactive THEN "RESOURCE_INACTIVE"
         ELSE IF ~hasTarget THEN "UNRESOLVED"
         ELSE "NONE" >>

----------------------------------------------------------------------------
(***************************************************************************)
(* The aggregate's guards, in the order the code evaluates them. A guard's *)
(* value is "changed", "unchanged" or the error returned.                  *)
(***************************************************************************)

\* The checks every semantic change goes through: metadata, then revision.
transition(rev, m, requireReason) ==
  IF requireReason /\ ~m.reason THEN "ErrInvalidDecisionMetadata"
  ELSE IF rev # m.expected THEN "ErrStaleMappingRevision"
  ELSE "changed"

\* Mutant: a confirmation may replace confirmed knowledge.
ConfirmAnyMapping(k, rev, m) ==
  IF k = Confirmed(m.target) /\ rev = m.expected
  THEN "unchanged" ELSE transition(rev, m, FALSE)

ConfirmMapping(k, rev, m) ==
  CASE k = Confirmed(m.target) ->
         IF rev # m.expected THEN "ErrStaleMappingRevision" ELSE "unchanged"
    [] k # Confirmed(m.target) /\ KnowledgeState(k) # "UNRESOLVED" ->
         "ErrInvalidMappingTransition"
    [] KnowledgeState(k) = "UNRESOLVED" -> transition(rev, m, FALSE)

CorrectMapping(k, rev, m) ==
  IF \/ KnowledgeState(k) # "CONFIRMED"
     \/ k.resource = m.target
     \/ k.resource # m.current
  THEN "ErrInvalidMappingTransition"
  ELSE transition(rev, m, TRUE)

ExceptionalUnlink(k, rev, m) ==
  IF KnowledgeState(k) # "CONFIRMED" \/ k.resource # m.current
  THEN "ErrInvalidMappingTransition"
  ELSE transition(rev, m, TRUE)

ReportIdentityConflict(k, rev, m) ==
  IF KnowledgeState(k) # "CONFIRMED" \/ k.resource # m.current
  THEN "ErrInvalidMappingTransition"
  ELSE transition(rev, m, TRUE)

ResolveIdentityConflict(k, rev, m) ==
  IF KnowledgeState(k) # "IDENTITY_CONFLICT" \/ k.resource # m.current
  THEN "ErrInvalidMappingTransition"
  ELSE transition(rev, m, TRUE)

MappingVerdict(op, k, rev, m) ==
  CASE op = "CONFIRM"                   -> ConfirmMapping(k, rev, m)
    [] op = "CORRECT"                   -> CorrectMapping(k, rev, m)
    [] op = "EXCEPTIONAL_UNLINK"        -> ExceptionalUnlink(k, rev, m)
    [] op = "REPORT_IDENTITY_CONFLICT"  -> ReportIdentityConflict(k, rev, m)
    [] op = "RESOLVE_IDENTITY_CONFLICT" -> ResolveIdentityConflict(k, rev, m)

\* Mutant: a reported conflict forgets the resource it is about.
NextMappingForgetful(op, k, m) ==
  CASE op \in {"CONFIRM", "CORRECT", "RESOLVE_IDENTITY_CONFLICT"} ->
         Confirmed(m.target)
    [] op = "EXCEPTIONAL_UNLINK"       -> Unresolved
    [] op = "REPORT_IDENTITY_CONFLICT" -> [Unresolved EXCEPT !.conflict = TRUE]

\* The knowledge a changed decision stores.
NextMapping(op, k, m) ==
  CASE op \in {"CONFIRM", "CORRECT", "RESOLVE_IDENTITY_CONFLICT"} ->
         Confirmed(m.target)
    [] op = "EXCEPTIONAL_UNLINK"       -> Unresolved
    [] op = "REPORT_IDENTITY_CONFLICT" -> [k EXCEPT !.conflict = TRUE]

\* Mutant: writing the override a line already has counts as a change.
AlwaysChangeOverride(current, rev, wanted, expected) ==
  IF rev # expected THEN "ErrStaleResolutionRevision" ELSE "changed"

\* A line's override decision: current override and revision, then the wanted
\* override and the revision it expects.
ChangeResolutionOverride(current, rev, wanted, expected) ==
  IF rev # expected THEN "ErrStaleResolutionRevision"
  ELSE IF current = wanted THEN "unchanged"
  ELSE "changed"
============================================================================
