---------------------------- MODULE PushTargets ----------------------------
(***************************************************************************)
(* Where notices are pushed to: the tokens that apps report                *)
(* (app/store_domains/message.py) and the dispatch of a notice to them     *)
(* (app/push.py), which runs outside the store's lock, target by target,   *)
(* while apps go on reporting tokens.                                      *)
(*                                                                         *)
(* Two reports of tokens are in different seconds, and push is enabled.  A *)
(* target is sent or fails; what makes it fail is left out.                *)
(***************************************************************************)
EXTENDS Integers, SequencesExt

CONSTANTS
  PushTokens,     \* device tokens
  ApnsTokens,     \* of them, Apple's: they need a signed token of our own
  SideChannels,   \* the webhook and ntfy, as configured: a sequence
  MaxTokens,      \* the cap of pushTokens (10 in the code)
  MaxRegistrations \* the cap of pushRegistrations (20 in the code)

\* Of the two caps, the second has to be nearly twice the first.
ASSUME PushAssumption ==
  /\ MaxTokens \in Nat \ {0} /\ MaxRegistrations \in Nat
  /\ MaxRegistrations >= 2 * MaxTokens - 1
  /\ SideChannels \in Seq(ToSet(SideChannels)) /\ IsInjective(SideChannels)
  /\ PushTokens \cap ToSet(SideChannels) = {}

Targets == PushTokens \cup ToSet(SideChannels)

VARIABLES
  tokens,        \* pushTokens, in the order of their first report
  registrations, \* tokens of pushRegistrations, in the order of their last report
  signed,        \* _apns_token is there and has not expired
  dispatch       \* dispatch_notice: see Dispatches

pushVars == <<tokens, registrations, signed, dispatch>>

Dispatches == [todo    : Seq(Targets),
               listed  : SUBSET Targets,  \* the targets when it began
               tried   : SUBSET Targets,
               aborted : BOOLEAN]         \* push.dispatch.error is its event

-----------------------------------------------------------------------------
LastOf(s, k) == SubSeq(s, IF Len(s) > k THEN Len(s) - k + 1 ELSE 1, Len(s))

\* Mutant of KeptRegistrations: registrations are kept as the tokens are.
AsManyAsTokens(rs) == LastOf(rs, MaxTokens)

KeptRegistrations(rs) == LastOf(rs, MaxRegistrations)

\* A registration, new or renewed, is the latest.
Renewed(rs, t) ==
  LET others == IF t \in ToSet(rs) THEN RemoveAt(rs, CHOOSE i \in DOMAIN rs : rs[i] = t) ELSE rs
  IN  Append(others, t)

\* set_push_token
ReportToken(t) ==
  /\ tokens' = IF t \in ToSet(tokens) THEN tokens ELSE LastOf(Append(tokens, t), MaxTokens)
  /\ registrations' = KeptRegistrations(Renewed(registrations, t))
  /\ UNCHANGED <<signed, dispatch>>

\* push_registrations: the registered tokens, the latest first, and before them
\* those that are not, as if they were reported now; these are in no order of ours.
Listed == {unregistered \o Reverse(registrations) :
             unregistered \in SetToSeqs(ToSet(tokens) \ ToSet(registrations))}

\* dispatch_notice
StartDispatch ==
  /\ dispatch.todo = <<>>
  /\ \E targets \in Listed :
       dispatch' = [todo |-> targets \o SideChannels, listed |-> ToSet(targets \o SideChannels),
                    tried |-> {}, aborted |-> FALSE]
  /\ UNCHANGED <<tokens, registrations, signed>>

\* A target that fails is recorded as an error.
Failed == [dispatch EXCEPT !.todo = Tail(@), !.tried = @ \cup {Head(dispatch.todo)}]

Sent == [dispatch EXCEPT !.todo = Tail(@), !.tried = @ \cup {Head(dispatch.todo)}]

\* _dispatch_target and the side channels: Apple's needs _apns_jwt first.
TryTarget ==
  /\ dispatch.todo # <<>>
  /\ Head(dispatch.todo) \in ApnsTokens => signed
  /\ dispatch' \in {Sent, Failed}
  /\ UNCHANGED <<tokens, registrations, signed>>

\* _apns_jwt signs anew.
Sign ==
  /\ dispatch.todo # <<>>
  /\ Head(dispatch.todo) \in ApnsTokens /\ ~signed
  /\ signed' = TRUE
  /\ UNCHANGED <<tokens, registrations, dispatch>>

\* _apns_jwt raises when there is no key or openssl fails; nothing between it
\* and the handler of the notice catches that.
SignFails ==
  /\ dispatch.todo # <<>>
  /\ Head(dispatch.todo) \in ApnsTokens /\ ~signed
  /\ dispatch' = [dispatch EXCEPT !.todo = <<>>, !.aborted = TRUE]
  /\ UNCHANGED <<tokens, registrations, signed>>

\* The signed token is good for 50 minutes.
Expire ==
  /\ signed
  /\ signed' = FALSE
  /\ UNCHANGED <<tokens, registrations, dispatch>>

-----------------------------------------------------------------------------
PushInit ==
  /\ tokens = <<>> /\ registrations = <<>> /\ signed = FALSE
  /\ dispatch = [todo |-> <<>>, listed |-> {}, tried |-> {}, aborted |-> FALSE]

PushNext ==
  \/ \E t \in PushTokens : ReportToken(t)
  \/ StartDispatch \/ TryTarget \/ Sign \/ SignFails \/ Expire

PushSpec == PushInit /\ [][PushNext]_pushVars

-----------------------------------------------------------------------------
\* The type invariant; nothing is listed twice.
PushTypeOK ==
  /\ tokens \in Seq(PushTokens) /\ Len(tokens) <= MaxTokens /\ IsInjective(tokens)
  /\ registrations \in Seq(PushTokens) /\ Len(registrations) <= MaxRegistrations
  /\ IsInjective(registrations) /\ IsInjective(dispatch.todo)
  /\ signed \in BOOLEAN
  /\ dispatch \in Dispatches

\* Every token that is kept has a registration, the newest report of all included,
\* although tokens are kept by their first report and registrations by their last
\* (set_push_token, app/store_domains/message.py:713-741); and a dispatch that is
\* over has tried every target there was, unless the key for Apple's could not be
\* signed with (app/push.py:64).
PushTargetsAreTried ==
  /\ ToSet(tokens) \subseteq ToSet(registrations)
  /\ dispatch.aborted \/ dispatch.listed = dispatch.tried \cup ToSet(dispatch.todo)

=============================================================================
