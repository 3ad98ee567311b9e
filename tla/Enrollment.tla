------------------------------- MODULE Enrollment -------------------------------
(***************************************************************************)
(* Agent enrolment (vpsmon/agents.py): limited, expiring enrolment tokens, *)
(* and register_agent, which validates a token, inserts the agent, counts  *)
(* the use and stores the agent's credential in four separate statements,  *)
(* while operators revoke tokens and delete agents.                        *)
(***************************************************************************)
EXTENDS Naturals, Sequences, FiniteSets

CONSTANTS
    Handlers,    \* /api/agent/register requests served at the same time
    Tokens,      \* enrolment tokens
    MaxUses,     \* [Tokens -> Nat]: max_uses, 0 = unlimited
    Lifetime,    \* [Tokens -> Nat]: expires_hours, 0 = never
    MaxTime,     \* bound: the last instant of the clock
    MaxAgents    \* bound: agents ever inserted

ASSUME EnrollmentAssumption ==
    /\ IsFiniteSet(Handlers) /\ Handlers # {}
    /\ MaxUses \in [Tokens -> Nat]
    /\ Lifetime \in [Tokens -> Nat]
    /\ MaxTime \in Nat
    /\ MaxAgents \in Nat

VARIABLES
    now,          \* int(time.time())
    tokens,       \* enrollment_tokens
    agents,       \* every row ever inserted in agents: its token, whether it is there
    credentials,  \* api_tokens with scope "agent": agents that have one
    issued,       \* history: agents whose credential was ever stored
    handler,      \* where each register_agent call is
    deleting,     \* agents whose row is deleted and whose credential is not yet
    halved        \* history: agents whose registration or deletion was cut short,
                  \*          or whose deletion ended before their registration

vars == <<now, tokens, agents, credentials, issued, handler, deleting, halved>>

Token == [state : {"unissued", "active", "revoked"}, uses : Nat, expires : Nat]
Agent == [token : Tokens, row : BOOLEAN]
Handler == [pc : {"idle"}]
    \cup [pc : {"insert"}, token : Tokens]
    \cup [pc : {"consume", "credential"}, token : Tokens, agent : Nat \ {0}]

Idle == [pc |-> "idle"]

Init ==
    /\ now = 0
    /\ tokens = [t \in Tokens |-> [state |-> "unissued", uses |-> 0, expires |-> 0]]
    /\ agents = <<>>
    /\ credentials = {}
    /\ issued = {}
    /\ handler = [h \in Handlers |-> Idle]
    /\ deleting = {}
    /\ halved = {}

Tick ==
    /\ now < MaxTime
    /\ now' = now + 1
    /\ UNCHANGED <<tokens, agents, credentials, issued, handler, deleting, halved>>

\* A token that never expires is given the end of time.
CreateToken(t) ==
    /\ tokens[t].state = "unissued"
    /\ tokens' = [tokens EXCEPT ![t] =
                    [state |-> "active", uses |-> 0,
                     expires |-> IF Lifetime[t] = 0 THEN MaxTime ELSE now + Lifetime[t]]]
    /\ UNCHANGED <<now, agents, credentials, issued, handler, deleting, halved>>

Revoke(t) ==
    /\ tokens[t].state = "active"
    /\ tokens' = [tokens EXCEPT ![t] = [state |-> "revoked", uses |-> @.uses, expires |-> @.expires]]
    /\ UNCHANGED <<now, agents, credentials, issued, handler, deleting, halved>>

-----------------------------------------------------------------------------
(* register_agent                                                          *)

\* Mutant: the limit is tested off by one.
UsableOnceMore(t) ==
    /\ tokens[t].state = "active"
    /\ now <= tokens[t].expires
    /\ MaxUses[t] > 0 => tokens[t].uses <= MaxUses[t]

Usable(t) ==
    /\ tokens[t].state = "active"
    /\ now <= tokens[t].expires
    /\ MaxUses[t] > 0 => tokens[t].uses < MaxUses[t]

\* A refused token leaves the handler where it was.
Validate(h, t) ==
    /\ handler[h].pc = "idle"
    /\ Usable(t)
    /\ handler' = [handler EXCEPT ![h] = [pc |-> "insert", token |-> t]]
    /\ UNCHANGED <<now, tokens, agents, credentials, issued, deleting, halved>>

\* Mutant: the id of the row before the INSERT.
InsertAgentStaleId(h) ==
    /\ handler[h].pc = "insert"
    /\ Len(agents) < MaxAgents
    /\ agents' = Append(agents, [token |-> handler[h].token, row |-> TRUE])
    /\ handler' = [handler EXCEPT ![h] =
                     [pc |-> "consume", token |-> @.token, agent |-> Len(agents)]]
    /\ UNCHANGED <<now, tokens, credentials, issued, deleting, halved>>

\* Mutant: the use is never counted.
InsertAgentUncounted(h) ==
    /\ handler[h].pc = "insert"
    /\ Len(agents) < MaxAgents
    /\ agents' = Append(agents, [token |-> handler[h].token, row |-> TRUE])
    /\ handler' = [handler EXCEPT ![h] =
                     [pc |-> "credential", token |-> @.token, agent |-> Len(agents) + 1]]
    /\ UNCHANGED <<now, tokens, credentials, issued, deleting, halved>>

InsertAgent(h) ==
    /\ handler[h].pc = "insert"
    /\ Len(agents) < MaxAgents
    /\ agents' = Append(agents, [token |-> handler[h].token, row |-> TRUE])
    /\ handler' = [handler EXCEPT ![h] =
                     [pc |-> "consume", token |-> @.token, agent |-> Len(agents) + 1]]
    /\ UNCHANGED <<now, tokens, credentials, issued, deleting, halved>>

\* UPDATE ... SET use_count = use_count + 1: it does not look at max_uses.
Consume(h) ==
    /\ handler[h].pc = "consume"
    /\ tokens' = [tokens EXCEPT ![handler[h].token] =
                    [state |-> @.state, uses |-> @.uses + 1, expires |-> @.expires]]
    /\ handler' = [handler EXCEPT ![h] =
                     [pc |-> "credential", token |-> @.token, agent |-> @.agent]]
    /\ UNCHANGED <<now, agents, credentials, issued, deleting, halved>>

StoreCredential(h) ==
    /\ handler[h].pc = "credential"
    /\ credentials' = credentials \cup {handler[h].agent}
    /\ issued' = issued \cup {handler[h].agent}
    /\ handler' = [handler EXCEPT ![h] = Idle]
    /\ UNCHANGED <<now, tokens, agents, deleting, halved>>

Inserted == {h \in Handlers : handler[h].pc \in {"consume", "credential"}}
Registering == {handler[h].agent : h \in Inserted}

\* A database error: nothing of what was done is undone.
RegisterFails(h) ==
    /\ handler[h].pc # "idle"
    /\ handler' = [handler EXCEPT ![h] = Idle]
    /\ halved' = halved \cup {handler[g].agent : g \in Inserted \cap {h}}
    /\ UNCHANGED <<now, tokens, agents, credentials, issued, deleting>>

-----------------------------------------------------------------------------
(* delete_agent: the row first, the credential last; again for an agent    *)
(* that is gone, as its handler does not look.                             *)

DeleteRow(a) ==
    /\ agents' = [agents EXCEPT ![a] = [token |-> @.token, row |-> FALSE]]
    /\ deleting' = deleting \cup {a}
    /\ UNCHANGED <<now, tokens, credentials, issued, handler, halved>>

\* Mutant: the credential is left behind.
DeleteCredentialKept(a) ==
    /\ a \in deleting
    /\ deleting' = deleting \ {a}
    /\ halved' = IF a \in Registering THEN halved \cup {a} ELSE halved \ {a}
    /\ UNCHANGED <<now, tokens, agents, credentials, issued, handler>>

\* The deletion removes what an earlier failure left, but not a credential that a
\* registration is still going to store.
DeleteCredential(a) ==
    /\ a \in deleting
    /\ credentials' = credentials \ {a}
    /\ deleting' = deleting \ {a}
    /\ halved' = IF a \in Registering THEN halved \cup {a} ELSE halved \ {a}
    /\ UNCHANGED <<now, tokens, agents, issued, handler>>

\* A database error between the statements.
DeleteFails(a) ==
    /\ a \in deleting
    /\ deleting' = deleting \ {a}
    /\ halved' = halved \cup {a}
    /\ UNCHANGED <<now, tokens, agents, credentials, issued, handler>>

Crash ==
    /\ handler' = [h \in Handlers |-> Idle]
    /\ deleting' = {}
    /\ halved' = halved \cup Registering \cup deleting
    /\ UNCHANGED <<now, tokens, agents, credentials, issued>>

RegisterStep(h) == InsertAgent(h) \/ Consume(h) \/ StoreCredential(h)

Next ==
    \/ Tick
    \/ \E t \in Tokens : CreateToken(t) \/ Revoke(t)
    \/ \E h \in Handlers, t \in Tokens : Validate(h, t)
    \/ \E h \in Handlers : RegisterStep(h) \/ RegisterFails(h)
    \/ \E a \in DOMAIN agents : DeleteRow(a) \/ DeleteCredential(a) \/ DeleteFails(a)
    \/ Crash

Spec == Init /\ [][Next]_vars

-----------------------------------------------------------------------------
(* Correctness.                                                            *)

TypeOK ==
    /\ now \in 0..MaxTime
    /\ tokens \in [Tokens -> Token]
    /\ agents \in Seq(Agent)
    /\ credentials \subseteq issued
    /\ issued \subseteq DOMAIN agents
    /\ handler \in [Handlers -> Handler]
    /\ \A h \in Handlers : handler[h].pc \in {"consume", "credential"} =>
         /\ handler[h].agent \in DOMAIN agents
         /\ agents[handler[h].agent].token = handler[h].token
    /\ deleting \subseteq DOMAIN agents
    /\ halved \subseteq DOMAIN agents

Limited == {t \in Tokens : MaxUses[t] > 0}

\* "Check if an enrollment token is valid and usable": a token with max_uses
\* is used at most that often.  The count is tested and raised in different
\* statements, so it depends on requests not overlapping.
WithinMaxUses == \A t \in Limited : tokens[t].uses <= MaxUses[t]

Pending(t) ==   \* requests that passed validation and are not counted yet
    {h \in Handlers : handler[h].pc \in {"insert", "consume"} /\ handler[h].token = t}

\* However requests, failures and restarts interleave, a limited token is
\* overused at most once per request served at the same time.
OveruseIsBounded ==
    \A t \in Limited :
        tokens[t].uses + Cardinality(Pending(t)) < MaxUses[t] + Cardinality(Handlers)

EnrolledWith(t) == {a \in issued : agents[a].token = t}
\* register_agent counts the use before it stores the credential: a credential
\* that ever worked was paid for with a use of its token, even when handlers
\* fail half way, the process restarts and agents are deleted.
CredentialsAreCounted == \A t \in Tokens : Cardinality(EnrolledWith(t)) <= tokens[t].uses

\* An agent in the list without a credential, which nobody can speak for, or a
\* credential without its agent is being registered or deleted right now; or one of
\* these was cut short, or the deletion did not wait for the registration, and no
\* deletion has followed that ended (register_agent, delete_agent).
HalvesHaveACause ==
    \A a \in DOMAIN agents :
        \/ agents[a].row <=> a \in credentials
        \/ a \in Registering \cup deleting \cup halved

=============================================================================
