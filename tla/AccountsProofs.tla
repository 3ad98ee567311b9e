------------------------------ MODULE AccountsProofs ------------------------------
(***************************************************************************)
(* Proofs about who may speak for an agent (Enrollment), for any number of *)
(* handlers, tokens, agents and any limits, and about who may log in       *)
(* (Users), for any number of requests, usernames and attempts.            *)
(***************************************************************************)
EXTENDS MCAccounts, FiniteSetTheorems, TLAPS

-----------------------------------------------------------------------------
(* Enrollment.                                                             *)

\* Adding at most one element raises a cardinality by at most one.
LEMMA AtMostOneMore ==
    ASSUME NEW S, IsFiniteSet(S), NEW x, NEW T, T \subseteq S \cup {x}
    PROVE  /\ IsFiniteSet(T)
           /\ Cardinality(S) \in Nat /\ Cardinality(T) \in Nat
           /\ Cardinality(T) <= Cardinality(S) + 1
<1>1. /\ IsFiniteSet(S \cup {x})
      /\ Cardinality(S \cup {x}) = IF x \in S THEN Cardinality(S) ELSE Cardinality(S) + 1
  BY FS_AddElement
<1>2. IsFiniteSet(T) /\ Cardinality(T) <= Cardinality(S \cup {x})
  BY <1>1, FS_Subset
<1>3. /\ Cardinality(S) \in Nat /\ Cardinality(T) \in Nat
  BY <1>2, FS_CardinalityType
<1>4. QED
  BY <1>1, <1>2, <1>3

\* Removing an element, or more, lowers a cardinality.
LEMMA OneLess ==
    ASSUME NEW S, IsFiniteSet(S), NEW x \in S, NEW T, T \subseteq S \ {x}
    PROVE  /\ IsFiniteSet(T)
           /\ Cardinality(S) \in Nat /\ Cardinality(T) \in Nat
           /\ Cardinality(T) + 1 <= Cardinality(S)
<1>1. IsFiniteSet(S \ {x}) /\ Cardinality(S \ {x}) = Cardinality(S) - 1
  BY FS_RemoveElement
<1>2. IsFiniteSet(T) /\ Cardinality(T) <= Cardinality(S \ {x})
  BY <1>1, FS_Subset
<1>3. /\ Cardinality(S) \in Nat /\ Cardinality(T) \in Nat
  BY <1>2, FS_CardinalityType
<1>4. QED
  BY <1>1, <1>2, <1>3

\* A row appended to the agents table has its type and is the last.
LEMMA AppendAgent ==
    ASSUME NEW r \in Agent, agents \in Seq(Agent), agents' = Append(agents, r)
    PROVE  /\ agents' \in Seq(Agent)
           /\ DOMAIN agents' = DOMAIN agents \cup {Len(agents) + 1}
           /\ Len(agents) + 1 \in Nat \ {0} /\ Len(agents) + 1 \notin DOMAIN agents
           /\ \A a \in DOMAIN agents : agents'[a] = agents[a]
           /\ agents'[Len(agents) + 1] = r
  OBVIOUS

\* The fields of a register_agent call at each of its places.
LEMMA HandlerShape ==
    ASSUME NEW h \in Handlers, handler \in [Handlers -> Handler]
    PROVE  /\ handler[h].pc \in {"idle", "insert", "consume", "credential"}
           /\ handler[h].pc = "idle" => handler[h] = Idle
           /\ handler[h].pc # "idle" => handler[h].token \in Tokens
           /\ handler[h].pc \in {"consume", "credential"} => handler[h].agent \in Nat \ {0}
  BY DEF Handler, Idle

-----------------------------------------------------------------------------
(* Type correctness.                                                       *)

\* The empty tables are well typed.
LEMMA EnrollmentTypeInit == Init => TypeOK
  BY EnrollmentAssumption DEF Init, TypeOK, Token, Handler, Idle

\* Every step of the handlers, operators and restarts keeps the state well typed.
LEMMA EnrollmentTypeStep == TypeOK /\ [Next]_vars => TypeOK'
<1> SUFFICES ASSUME TypeOK, [Next]_vars PROVE TypeOK'
  OBVIOUS
<1>1. CASE Tick
  BY <1>1, EnrollmentAssumption DEF TypeOK, Tick
<1>2. ASSUME NEW t \in Tokens, CreateToken(t) PROVE TypeOK'
  <2>1. (IF Lifetime[t] = 0 THEN MaxTime ELSE now + Lifetime[t]) \in Nat
    BY EnrollmentAssumption DEF TypeOK
  <2>2. tokens' \in [Tokens -> Token]
    BY <1>2, <2>1 DEF CreateToken, TypeOK, Token
  <2>3. QED
    BY <1>2, <2>2 DEF CreateToken, TypeOK
<1>3. ASSUME NEW t \in Tokens, Revoke(t) PROVE TypeOK'
  <2>1. tokens[t].uses \in Nat /\ tokens[t].expires \in Nat
    BY DEF TypeOK, Token
  <2>2. tokens' \in [Tokens -> Token]
    BY <1>3, <2>1 DEF Revoke, TypeOK, Token
  <2>3. QED
    BY <1>3, <2>2 DEF Revoke, TypeOK
<1>4. ASSUME NEW h \in Handlers, NEW t \in Tokens, Validate(h, t) PROVE TypeOK'
  BY <1>4 DEF TypeOK, Validate, Handler
<1>5. ASSUME NEW h \in Handlers, InsertAgent(h) PROVE TypeOK'
  <2>1. handler[h].token \in Tokens
    BY <1>5, HandlerShape DEF TypeOK, InsertAgent
  <2>2. [token |-> handler[h].token, row |-> TRUE] \in Agent
    BY <2>1 DEF Agent
  <2>3. /\ agents' \in Seq(Agent)
        /\ DOMAIN agents' = DOMAIN agents \cup {Len(agents) + 1}
        /\ Len(agents) + 1 \in Nat \ {0}
        /\ \A a \in DOMAIN agents : agents'[a] = agents[a]
        /\ agents'[Len(agents) + 1] = [token |-> handler[h].token, row |-> TRUE]
    BY <1>5, <2>2, AppendAgent DEF InsertAgent, TypeOK
  <2>4. /\ handler' \in [Handlers -> Handler]
        /\ handler'[h] = [pc |-> "consume", token |-> handler[h].token, agent |-> Len(agents) + 1]
        /\ \A g \in Handlers \ {h} : handler'[g] = handler[g]
    BY <1>5, <2>1, <2>3 DEF InsertAgent, TypeOK, Handler
  <2>5. QED
    BY <1>5, <2>3, <2>4 DEF InsertAgent, TypeOK
<1>6. ASSUME NEW h \in Handlers, Consume(h) PROVE TypeOK'
  <2>1. /\ handler[h].token \in Tokens /\ handler[h].agent \in Nat \ {0}
    BY <1>6, HandlerShape DEF TypeOK, Consume
  <2>2. /\ handler' \in [Handlers -> Handler]
        /\ handler'[h] = [pc |-> "credential", token |-> handler[h].token, agent |-> handler[h].agent]
        /\ \A g \in Handlers \ {h} : handler'[g] = handler[g]
    BY <1>6, <2>1 DEF Consume, TypeOK, Handler
  <2>3. tokens' \in [Tokens -> Token]
    <3>1. /\ tokens[handler[h].token].state \in {"unissued", "active", "revoked"}
          /\ tokens[handler[h].token].uses + 1 \in Nat
          /\ tokens[handler[h].token].expires \in Nat
      BY <2>1 DEF TypeOK, Token
    <3>2. QED
      BY <1>6, <2>1, <3>1 DEF Consume, TypeOK, Token
  <2>4. QED
    BY <1>6, <2>2, <2>3 DEF Consume, TypeOK
<1>7. ASSUME NEW h \in Handlers, StoreCredential(h) PROVE TypeOK'
  BY <1>7 DEF TypeOK, StoreCredential, Handler, Idle
<1>8. ASSUME NEW h \in Handlers, RegisterFails(h) PROVE TypeOK'
  <2>1. {handler[g].agent : g \in Inserted \cap {h}} \subseteq DOMAIN agents
    BY DEF TypeOK, Inserted
  <2>2. QED
    BY <1>8, <2>1 DEF TypeOK, RegisterFails, Handler, Idle
<1>9. ASSUME NEW a \in DOMAIN agents, DeleteRow(a) PROVE TypeOK'
  <2>1. agents[a].token \in Tokens
    <3>1. agents[a] \in Agent
      BY DEF TypeOK
    <3>2. QED
      BY <3>1 DEF Agent
  <2>2. /\ agents' \in Seq(Agent)
        /\ DOMAIN agents' = DOMAIN agents
        /\ \A b \in DOMAIN agents : agents'[b].token = agents[b].token
    BY <1>9, <2>1 DEF DeleteRow, TypeOK, Agent
  <2>3. QED
    BY <1>9, <2>2 DEF DeleteRow, TypeOK
<1>10. ASSUME NEW a \in DOMAIN agents, DeleteCredential(a) PROVE TypeOK'
  BY <1>10 DEF TypeOK, DeleteCredential
<1>11. ASSUME NEW a \in DOMAIN agents, DeleteFails(a) PROVE TypeOK'
  BY <1>11 DEF TypeOK, DeleteFails
<1>12. CASE Crash
  <2>1. Registering \subseteq DOMAIN agents
    BY DEF TypeOK, Registering, Inserted
  <2>2. QED
    BY <1>12, <2>1 DEF TypeOK, Crash, Handler, Idle
<1>13. CASE UNCHANGED vars
  BY <1>13 DEF TypeOK, vars
<1>14. QED
  BY <1>1, <1>2, <1>3, <1>4, <1>5, <1>6, <1>7, <1>8, <1>9, <1>10, <1>11, <1>12, <1>13
  DEF Next, RegisterStep

\* The enrolment tables stay well typed, and no handler or credential refers to
\* an agent that was never inserted.
THEOREM EnrollmentTypeCorrect == Spec => []TypeOK
<1>1. Init => TypeOK
  BY EnrollmentTypeInit
<1>2. TypeOK /\ [Next]_vars => TypeOK'
  BY EnrollmentTypeStep
<1>3. QED
  BY <1>1, <1>2, PTL DEF Spec

-----------------------------------------------------------------------------
(* Overuse.  A request is admitted only while the count is below the       *)
(* limit, so count plus admitted requests stays below limit plus handlers; *)
(* counting moves one request from the second term to the first.           *)

OveruseInv == TypeOK /\ OveruseIsBounded

\* The requests pending on a token are finitely many, at most all handlers.
LEMMA PendingFinite ==
    ASSUME NEW t
    PROVE  /\ IsFiniteSet(Pending(t))
           /\ Cardinality(Pending(t)) \in Nat /\ Cardinality(Handlers) \in Nat
           /\ Cardinality(Pending(t)) <= Cardinality(Handlers)
           /\ Pending(t) \subseteq Handlers
<1>1. Pending(t) \subseteq Handlers
  BY DEF Pending
<1>2. QED
  BY <1>1, EnrollmentAssumption, FS_Subset, FS_CardinalityType

\* Without a new request or a new use the bound cannot break.
LEMMA NoNewUse ==
    ASSUME TypeOK, OveruseIsBounded,
           \A t \in Tokens : tokens'[t].uses = tokens[t].uses,
           \A t \in Tokens : Pending(t)' \subseteq Pending(t)
    PROVE  OveruseIsBounded'
<1> SUFFICES ASSUME NEW t \in Limited
             PROVE  tokens'[t].uses + Cardinality(Pending(t)') < MaxUses[t] + Cardinality(Handlers)
  BY DEF OveruseIsBounded, Limited
<1>1. t \in Tokens /\ MaxUses[t] \in Nat /\ tokens[t].uses \in Nat
  BY EnrollmentAssumption DEF Limited, TypeOK, Token
<1>2. /\ Cardinality(Pending(t)') <= Cardinality(Pending(t))
      /\ Cardinality(Pending(t)') \in Nat /\ Cardinality(Pending(t)) \in Nat
      /\ Cardinality(Handlers) \in Nat
  <2>1. IsFiniteSet(Pending(t)) /\ Cardinality(Pending(t)) \in Nat /\ Cardinality(Handlers) \in Nat
    BY PendingFinite
  <2>2. Pending(t)' \subseteq Pending(t)
    BY <1>1
  <2>3. IsFiniteSet(Pending(t)') /\ Cardinality(Pending(t)') <= Cardinality(Pending(t))
    BY <2>1, <2>2, FS_Subset
  <2>4. QED
    BY <2>1, <2>3, FS_CardinalityType
<1>3. tokens[t].uses + Cardinality(Pending(t)) < MaxUses[t] + Cardinality(Handlers)
  BY DEF OveruseIsBounded
<1>4. QED
  BY <1>1, <1>2, <1>3

\* Admitting, counting, failing and restarting keep the bound.
LEMMA OveruseStep == OveruseInv /\ [Next]_vars => OveruseInv'
<1> SUFFICES ASSUME OveruseInv, [Next]_vars PROVE OveruseIsBounded'
  BY EnrollmentTypeStep DEF OveruseInv
<1> USE DEF OveruseInv
<1>1. CASE Tick \/ UNCHANGED vars
  BY <1>1, NoNewUse DEF Tick, vars, Pending
<1>2. ASSUME NEW t \in Tokens, CreateToken(t) PROVE OveruseIsBounded'
  <2> SUFFICES ASSUME NEW u \in Limited
               PROVE  tokens'[u].uses + Cardinality(Pending(u)') < MaxUses[u] + Cardinality(Handlers)
    BY DEF OveruseIsBounded, Limited
  <2>1. /\ Pending(u)' = Pending(u)
        /\ u \in Tokens /\ MaxUses[u] \in Nat /\ MaxUses[u] > 0
    BY <1>2, EnrollmentAssumption DEF CreateToken, Pending, Limited
  <2>2. tokens'[u].uses = IF u = t THEN 0 ELSE tokens[u].uses
    BY <1>2, <2>1 DEF CreateToken, TypeOK
  <2>3. tokens[u].uses + Cardinality(Pending(u)) < MaxUses[u] + Cardinality(Handlers)
    BY DEF OveruseIsBounded
  <2>4. QED
    BY <2>1, <2>2, <2>3, PendingFinite
<1>3. ASSUME NEW t \in Tokens, Revoke(t) PROVE OveruseIsBounded'
  BY <1>3, NoNewUse DEF Revoke, Pending, TypeOK
<1>4. ASSUME NEW h \in Handlers, NEW t \in Tokens, Validate(h, t) PROVE OveruseIsBounded'
  <2> SUFFICES ASSUME NEW u \in Limited
               PROVE  tokens'[u].uses + Cardinality(Pending(u)') < MaxUses[u] + Cardinality(Handlers)
    BY DEF OveruseIsBounded, Limited
  <2>1. /\ u \in Tokens /\ MaxUses[u] \in Nat /\ MaxUses[u] > 0
        /\ tokens' = tokens /\ tokens[u].uses \in Nat
    BY <1>4, EnrollmentAssumption DEF Validate, Limited, TypeOK, Token
  <2>2. CASE u = t
    <3>1. tokens[u].uses < MaxUses[u]
      BY <1>4, <2>1, <2>2 DEF Validate, Usable
    <3>2. /\ Cardinality(Pending(u)') <= Cardinality(Handlers)
          /\ Cardinality(Pending(u)') \in Nat /\ Cardinality(Handlers) \in Nat
      <4>1. Pending(u)' \subseteq Handlers
        BY DEF Pending
      <4>2. QED
        BY <4>1, EnrollmentAssumption, FS_Subset, FS_CardinalityType
    <3>3. QED
      BY <2>1, <3>1, <3>2
  <2>3. CASE u # t
    <3>1. Pending(u)' = Pending(u)
      BY <1>4, <2>3 DEF Validate, Pending, TypeOK
    <3>2. QED
      BY <2>1, <3>1 DEF OveruseIsBounded
  <2>4. QED
    BY <2>2, <2>3
<1>5. ASSUME NEW h \in Handlers, InsertAgent(h) PROVE OveruseIsBounded'
  <2>1. \A t \in Tokens : Pending(t)' \subseteq Pending(t)
    BY <1>5 DEF InsertAgent, Pending, TypeOK
  <2>2. QED
    BY <1>5, <2>1, NoNewUse DEF InsertAgent
<1>6. ASSUME NEW h \in Handlers, Consume(h) PROVE OveruseIsBounded'
  <2> SUFFICES ASSUME NEW u \in Limited
               PROVE  tokens'[u].uses + Cardinality(Pending(u)') < MaxUses[u] + Cardinality(Handlers)
    BY DEF OveruseIsBounded, Limited
  <2>1. /\ u \in Tokens /\ MaxUses[u] \in Nat /\ tokens[u].uses \in Nat
        /\ handler[h].token \in Tokens
    BY <1>6, HandlerShape, EnrollmentAssumption DEF Consume, Limited, TypeOK, Token
  <2>2. tokens[u].uses + Cardinality(Pending(u)) < MaxUses[u] + Cardinality(Handlers)
    BY DEF OveruseIsBounded
  <2>3. CASE u = handler[h].token
    <3>1. tokens'[u].uses = tokens[u].uses + 1
      BY <1>6, <2>1, <2>3 DEF Consume, TypeOK
    <3>2. h \in Pending(u) /\ Pending(u)' \subseteq Pending(u) \ {h}
      BY <1>6, <2>3 DEF Consume, Pending, TypeOK
    <3>3. /\ Cardinality(Pending(u)') + 1 <= Cardinality(Pending(u))
          /\ Cardinality(Pending(u)') \in Nat /\ Cardinality(Pending(u)) \in Nat
      BY <3>2, OneLess, PendingFinite
    <3>4. QED
      BY <2>1, <2>2, <3>1, <3>3, PendingFinite
  <2>4. CASE u # handler[h].token
    <3>1. tokens'[u].uses = tokens[u].uses /\ Pending(u)' = Pending(u)
      BY <1>6, <2>1, <2>4 DEF Consume, Pending, TypeOK
    <3>2. QED
      BY <2>2, <3>1
  <2>5. QED
    BY <2>3, <2>4
<1>7. ASSUME NEW h \in Handlers, StoreCredential(h) \/ RegisterFails(h) PROVE OveruseIsBounded'
  <2>1. \A t \in Tokens : Pending(t)' \subseteq Pending(t)
    BY <1>7 DEF StoreCredential, RegisterFails, Pending, TypeOK, Idle
  <2>2. QED
    BY <1>7, <2>1, NoNewUse DEF StoreCredential, RegisterFails
<1>8. ASSUME NEW a \in DOMAIN agents, DeleteRow(a) \/ DeleteCredential(a) \/ DeleteFails(a)
      PROVE  OveruseIsBounded'
  BY <1>8, NoNewUse DEF DeleteRow, DeleteCredential, DeleteFails, Pending
<1>9. CASE Crash
  BY <1>9, NoNewUse DEF Crash, Pending, Idle
<1>10. QED
  BY <1>1, <1>2, <1>3, <1>4, <1>5, <1>6, <1>7, <1>8, <1>9 DEF Next, RegisterStep

\* A token with max_uses is overused by less than the number of requests the
\* server handles at the same time, whatever fails or restarts.
THEOREM OveruseBounded == Spec => []OveruseIsBounded
<1>1. Init => OveruseInv
  <2> SUFFICES ASSUME Init PROVE OveruseIsBounded
    BY EnrollmentTypeInit DEF OveruseInv
  <2> SUFFICES ASSUME NEW t \in Limited
               PROVE  tokens[t].uses + Cardinality(Pending(t)) < MaxUses[t] + Cardinality(Handlers)
    BY DEF OveruseIsBounded
  <2>1. /\ tokens[t].uses = 0 /\ MaxUses[t] \in Nat /\ MaxUses[t] > 0
    BY EnrollmentAssumption DEF Init, Limited
  <2>2. QED
    BY <2>1, PendingFinite
<1>2. OveruseInv /\ [Next]_vars => OveruseInv'
  BY OveruseStep
<1>3. OveruseInv => OveruseIsBounded
  BY DEF OveruseInv
<1>4. QED
  BY <1>1, <1>2, <1>3, PTL DEF Spec

\* If the server handles one registration at a time, max_uses is kept.
THEOREM SequentialWithinMaxUses ==
    ASSUME Cardinality(Handlers) = 1
    PROVE  Spec => []WithinMaxUses
<1>1. TypeOK /\ OveruseIsBounded => WithinMaxUses
  <2> SUFFICES ASSUME TypeOK, OveruseIsBounded, NEW t \in Limited
               PROVE  tokens[t].uses <= MaxUses[t]
    BY DEF WithinMaxUses
  <2>1. tokens[t].uses \in Nat /\ MaxUses[t] \in Nat
    BY EnrollmentAssumption DEF Limited, TypeOK, Token
  <2>2. tokens[t].uses + Cardinality(Pending(t)) < MaxUses[t] + 1
    BY DEF OveruseIsBounded
  <2>3. QED
    BY <2>1, <2>2, PendingFinite
<1>2. QED
  BY <1>1, EnrollmentTypeCorrect, OveruseBounded, PTL

-----------------------------------------------------------------------------
(* Counting.  The agents whose use is counted are those whose credential   *)
(* is stored or about to be; Consume adds one of them together with a use. *)

Counted(t) ==
    {a \in DOMAIN agents :
        /\ agents[a].token = t
        /\ \/ a \in issued
           \/ \E h \in Handlers : handler[h].pc = "credential" /\ handler[h].agent = a}

\* A token not created yet has no uses and nobody registers with it.
UnissuedUnused ==
    /\ \A t \in Tokens : tokens[t].state = "unissued" => tokens[t].uses = 0
    /\ \A h \in Handlers : handler[h].pc # "idle" => tokens[handler[h].token].state # "unissued"

CountingInv ==
    /\ TypeOK
    /\ UnissuedUnused
    /\ \A t \in Tokens : Cardinality(Counted(t)) <= tokens[t].uses

\* The agents table is finite, and so is every set of its rows.
LEMMA CountedFinite ==
    ASSUME TypeOK, NEW t
    PROVE  IsFiniteSet(Counted(t)) /\ Cardinality(Counted(t)) \in Nat
<1>1. DOMAIN agents = 1..Len(agents) /\ Len(agents) \in Nat
  BY DEF TypeOK
<1>2. IsFiniteSet(DOMAIN agents)
  BY <1>1, FS_Interval
<1>3. Counted(t) \subseteq DOMAIN agents
  BY DEF Counted
<1>4. QED
  BY <1>2, <1>3, FS_Subset, FS_CardinalityType

\* A step that adds no counted agent and takes no use away keeps the inequality.
LEMMA NoNewCounted ==
    ASSUME TypeOK, NEW t \in Tokens,
           Cardinality(Counted(t)) <= tokens[t].uses,
           tokens'[t].uses = tokens[t].uses,
           Counted(t)' \subseteq Counted(t)
    PROVE  Cardinality(Counted(t)') <= tokens'[t].uses
<1>1. IsFiniteSet(Counted(t)) /\ Cardinality(Counted(t)) \in Nat
  BY CountedFinite
<1>2. /\ Cardinality(Counted(t)') <= Cardinality(Counted(t))
      /\ Cardinality(Counted(t)') \in Nat
  BY <1>1, FS_Subset, FS_CardinalityType
<1>3. tokens[t].uses \in Nat
  BY DEF TypeOK, Token
<1>4. QED
  BY <1>1, <1>2, <1>3

\* Tokens are created unused and registrations start from created tokens.
LEMMA UnissuedStep ==
    ASSUME TypeOK, UnissuedUnused, [Next]_vars
    PROVE  UnissuedUnused'
<1>1. ASSUME NEW t \in Tokens, CreateToken(t) PROVE UnissuedUnused'
  BY <1>1, HandlerShape DEF UnissuedUnused, CreateToken, TypeOK
<1>2. ASSUME NEW t \in Tokens, Revoke(t) PROVE UnissuedUnused'
  BY <1>2, HandlerShape DEF UnissuedUnused, Revoke, TypeOK
<1>3. ASSUME NEW h \in Handlers, NEW t \in Tokens, Validate(h, t) PROVE UnissuedUnused'
  BY <1>3 DEF UnissuedUnused, Validate, Usable, TypeOK
<1>4. ASSUME NEW h \in Handlers, InsertAgent(h) PROVE UnissuedUnused'
  BY <1>4 DEF UnissuedUnused, InsertAgent, TypeOK
<1>5. ASSUME NEW h \in Handlers, Consume(h) PROVE UnissuedUnused'
  <2>1. handler[h].token \in Tokens /\ tokens[handler[h].token].state # "unissued"
    BY <1>5, HandlerShape DEF UnissuedUnused, Consume, TypeOK
  <2>2. \A t \in Tokens : /\ tokens'[t].state = tokens[t].state
                          /\ t # handler[h].token => tokens'[t].uses = tokens[t].uses
    BY <1>5 DEF Consume, TypeOK
  <2>3. \A g \in Handlers : /\ handler'[g].pc # "idle" => handler[g].pc # "idle"
                            /\ handler'[g].pc # "idle" => handler'[g].token = handler[g].token
    BY <1>5 DEF Consume, TypeOK
  <2>4. \A g \in Handlers : handler[g].pc # "idle" => handler[g].token \in Tokens
    BY HandlerShape DEF TypeOK
  <2>5. QED
    BY <2>1, <2>2, <2>3, <2>4 DEF UnissuedUnused
<1>6. ASSUME NEW h \in Handlers, StoreCredential(h) \/ RegisterFails(h) PROVE UnissuedUnused'
  BY <1>6 DEF UnissuedUnused, StoreCredential, RegisterFails, TypeOK, Idle
<1>7. CASE Crash
  BY <1>7 DEF UnissuedUnused, Crash, Idle
<1>8. ASSUME tokens' = tokens, handler' = handler PROVE UnissuedUnused'
  BY <1>8 DEF UnissuedUnused
<1>9. QED
  BY <1>1, <1>2, <1>3, <1>4, <1>5, <1>6, <1>7, <1>8
  DEF Next, RegisterStep, Tick, DeleteRow, DeleteCredential, DeleteFails, vars

\* Only Consume makes an agent counted, and it counts a use in the same statement.
LEMMA CountingStep == CountingInv /\ [Next]_vars => CountingInv'
<1> SUFFICES ASSUME CountingInv, [Next]_vars, NEW t \in Tokens
             PROVE  Cardinality(Counted(t)') <= tokens'[t].uses
  BY EnrollmentTypeStep, UnissuedStep DEF CountingInv
<1>i. TypeOK /\ UnissuedUnused /\ Cardinality(Counted(t)) <= tokens[t].uses
  BY DEF CountingInv
<1> DEFINE Goal == Cardinality(Counted(t)') <= tokens'[t].uses
<1>1. ASSUME NEW u \in Tokens, CreateToken(u) \/ Revoke(u) PROVE Goal
  <2>1. tokens'[t].uses = tokens[t].uses
    BY <1>1, <1>i DEF CreateToken, Revoke, UnissuedUnused, TypeOK
  <2>2. Counted(t)' \subseteq Counted(t)
    BY <1>1 DEF CreateToken, Revoke, Counted
  <2>3. QED
    BY <1>i, <2>1, <2>2, NoNewCounted
<1>2. ASSUME NEW h \in Handlers, NEW u \in Tokens, Validate(h, u) PROVE Goal
  <2>1. Counted(t)' \subseteq Counted(t)
    BY <1>2, <1>i DEF Validate, Counted, TypeOK
  <2>2. QED
    BY <1>2, <1>i, <2>1, NoNewCounted DEF Validate
<1>3. ASSUME NEW h \in Handlers, InsertAgent(h) PROVE Goal
  <2>1. /\ handler[h].token \in Tokens
        /\ [token |-> handler[h].token, row |-> TRUE] \in Agent
    BY <1>3, <1>i, HandlerShape DEF TypeOK, InsertAgent, Agent
  <2>2. /\ DOMAIN agents' = DOMAIN agents \cup {Len(agents) + 1}
        /\ Len(agents) + 1 \notin DOMAIN agents
        /\ \A a \in DOMAIN agents : agents'[a] = agents[a]
    BY <1>3, <1>i, <2>1, AppendAgent DEF InsertAgent, TypeOK
  <2>3. \A g \in Handlers : handler'[g].pc = "credential" =>
            handler'[g] = handler[g] /\ handler[g].agent \in DOMAIN agents
    BY <1>3, <1>i DEF InsertAgent, TypeOK
  <2>4. issued' = issued /\ issued \subseteq DOMAIN agents /\ tokens' = tokens
    BY <1>3, <1>i DEF InsertAgent, TypeOK
  <2>5. Counted(t)' \subseteq Counted(t)
    BY <2>2, <2>3, <2>4 DEF Counted
  <2>6. QED
    BY <1>i, <2>4, <2>5, NoNewCounted
<1>4. ASSUME NEW h \in Handlers, Consume(h) PROVE Goal
  <2>1. /\ handler[h].token \in Tokens
        /\ handler[h].agent \in DOMAIN agents
        /\ agents[handler[h].agent].token = handler[h].token
        /\ tokens[t].uses \in Nat
    BY <1>4, <1>i, HandlerShape DEF TypeOK, Consume, Token
  <2>2. /\ agents' = agents /\ issued' = issued
        /\ \A g \in Handlers \ {h} : handler'[g] = handler[g]
        /\ handler'[h].agent = handler[h].agent
    BY <1>4, <1>i DEF Consume, TypeOK
  <2>3. CASE t = handler[h].token
    <3>1. tokens'[t].uses = tokens[t].uses + 1
      BY <1>4, <1>i, <2>3 DEF Consume, TypeOK
    <3>2. Counted(t)' \subseteq Counted(t) \cup {handler[h].agent}
      BY <2>2 DEF Counted
    <3>3. /\ Cardinality(Counted(t)') <= Cardinality(Counted(t)) + 1
          /\ Cardinality(Counted(t)') \in Nat /\ Cardinality(Counted(t)) \in Nat
      BY <1>i, <3>2, CountedFinite, AtMostOneMore
    <3>4. QED
      BY <1>i, <2>1, <3>1, <3>3
  <2>4. CASE t # handler[h].token
    <3>1. tokens'[t].uses = tokens[t].uses
      BY <1>4, <1>i, <2>4 DEF Consume, TypeOK
    <3>2. Counted(t)' \subseteq Counted(t)
      BY <2>1, <2>2, <2>4 DEF Counted
    <3>3. QED
      BY <1>i, <3>1, <3>2, NoNewCounted
  <2>5. QED
    BY <2>3, <2>4
<1>5. ASSUME NEW h \in Handlers, StoreCredential(h) \/ RegisterFails(h) PROVE Goal
  <2>1. Counted(t)' \subseteq Counted(t)
    BY <1>5, <1>i DEF StoreCredential, RegisterFails, Counted, TypeOK, Idle
  <2>2. tokens' = tokens
    BY <1>5 DEF StoreCredential, RegisterFails
  <2>3. QED
    BY <1>i, <2>1, <2>2, NoNewCounted
<1>6. ASSUME NEW a \in DOMAIN agents, DeleteRow(a) PROVE Goal
  <2>1. DOMAIN agents' = DOMAIN agents /\ \A b \in DOMAIN agents : agents'[b].token = agents[b].token
    BY <1>6, <1>i DEF DeleteRow, TypeOK
  <2>2. issued' = issued /\ handler' = handler /\ tokens' = tokens
    BY <1>6 DEF DeleteRow
  <2>3. Counted(t)' \subseteq Counted(t)
    BY <2>1, <2>2 DEF Counted
  <2>4. QED
    BY <1>i, <2>2, <2>3, NoNewCounted
<1>7. CASE Crash
  <2>1. Counted(t)' \subseteq Counted(t)
    BY <1>7 DEF Crash, Counted, Idle
  <2>2. QED
    BY <1>7, <1>i, <2>1, NoNewCounted DEF Crash
<1>8. ASSUME tokens' = tokens, handler' = handler, agents' = agents, issued' = issued PROVE Goal
  BY <1>8, <1>i, NoNewCounted DEF Counted
<1>9. QED
  BY <1>1, <1>2, <1>3, <1>4, <1>5, <1>6, <1>7, <1>8
  DEF Next, RegisterStep, Tick, DeleteCredential, DeleteFails, vars

\* Every credential ever stored was paid for with a use of its token, although
\* the agent, the use and the credential are three statements that may fail.
THEOREM CredentialsCounted == Spec => []CredentialsAreCounted
<1>1. Init => CountingInv
  <2> SUFFICES ASSUME Init
               PROVE  UnissuedUnused /\ \A t \in Tokens : Cardinality(Counted(t)) <= tokens[t].uses
    BY EnrollmentTypeInit DEF CountingInv
  <2>1. UnissuedUnused
    BY DEF Init, UnissuedUnused, Idle
  <2>2. ASSUME NEW t \in Tokens PROVE Cardinality(Counted(t)) <= tokens[t].uses
    <3>1. Counted(t) = {} /\ tokens[t].uses = 0
      BY DEF Init, Counted
    <3>2. QED
      BY <3>1, FS_EmptySet
  <2>3. QED
    BY <2>1, <2>2
<1>2. CountingInv /\ [Next]_vars => CountingInv'
  BY CountingStep
<1>3. CountingInv => CredentialsAreCounted
  <2> SUFFICES ASSUME CountingInv, NEW t \in Tokens
               PROVE  Cardinality(EnrolledWith(t)) <= tokens[t].uses
    BY DEF CredentialsAreCounted
  <2>1. TypeOK /\ Cardinality(Counted(t)) <= tokens[t].uses
    BY DEF CountingInv
  <2>2. EnrolledWith(t) \subseteq Counted(t)
    BY <2>1 DEF EnrolledWith, Counted, TypeOK
  <2>3. /\ Cardinality(EnrolledWith(t)) <= Cardinality(Counted(t))
        /\ Cardinality(EnrolledWith(t)) \in Nat /\ Cardinality(Counted(t)) \in Nat
    BY <2>1, <2>2, CountedFinite, FS_Subset, FS_CardinalityType
  <2>4. tokens[t].uses \in Nat
    BY <2>1 DEF TypeOK, Token
  <2>5. QED
    BY <2>1, <2>3, <2>4
<1>4. QED
  BY <1>1, <1>2, <1>3, PTL DEF Spec

-----------------------------------------------------------------------------
(* Halves.  A row is missing only once its deletion began, and a deletion  *)
(* that ended while nobody registered the agent left nothing of it.        *)

Explained(a) ==
    /\ a \in deleting => ~agents[a].row
    /\ agents[a].row => a \in credentials \cup Registering \cup halved
    /\ ~agents[a].row => \/ a \in deleting \cup halved
                         \/ a \notin credentials /\ a \notin Registering

HalvesInv == TypeOK /\ \A a \in DOMAIN agents : Explained(a)

\* What a step that moves one handler does to the agents being registered.
LEMMA RegisteringMoves ==
    ASSUME TypeOK, NEW h \in Handlers, NEW x \in Handler, handler' = [handler EXCEPT ![h] = x]
    PROVE  /\ Registering' \subseteq Registering
                \cup (IF x.pc \in {"consume", "credential"} THEN {x.agent} ELSE {})
           /\ Registering \subseteq Registering' \cup {handler[g].agent : g \in Inserted \cap {h}}
           /\ x.pc \in {"consume", "credential"} => x.agent \in Registering'
<1>1. handler'[h] = x /\ \A g \in Handlers \ {h} : handler'[g] = handler[g]
  BY DEF TypeOK
<1>2. QED
  BY <1>1 DEF Registering, Inserted

\* Each half that a step makes is in the history before anybody can see it.
LEMMA HalvesStep == HalvesInv /\ [Next]_vars => HalvesInv'
<1> SUFFICES ASSUME HalvesInv, [Next]_vars, NEW a \in DOMAIN agents'
             PROVE  Explained(a)'
  BY EnrollmentTypeStep DEF HalvesInv
<1>i. TypeOK /\ \A b \in DOMAIN agents : Explained(b)
  BY DEF HalvesInv
<1>1. ASSUME NEW h \in Handlers, InsertAgent(h) PROVE Explained(a)'
  <2>1. /\ handler[h].token \in Tokens
        /\ [token |-> handler[h].token, row |-> TRUE] \in Agent
    BY <1>1, <1>i, HandlerShape DEF TypeOK, InsertAgent, Agent
  <2>2. /\ DOMAIN agents' = DOMAIN agents \cup {Len(agents) + 1}
        /\ Len(agents) + 1 \notin DOMAIN agents
        /\ Len(agents) + 1 \in Nat \ {0}
        /\ \A b \in DOMAIN agents : agents'[b] = agents[b]
        /\ agents'[Len(agents) + 1] = [token |-> handler[h].token, row |-> TRUE]
    BY <1>1, <1>i, <2>1, AppendAgent DEF InsertAgent, TypeOK
  <2> DEFINE x == [pc |-> "consume", token |-> handler[h].token, agent |-> Len(agents) + 1]
  <2>3. handler' = [handler EXCEPT ![h] = x] /\ x \in Handler
    BY <1>1, <2>1, <2>2 DEF InsertAgent, Handler
  <2>4. /\ Registering' \subseteq Registering \cup {Len(agents) + 1}
        /\ Registering \subseteq Registering' \cup {handler[g].agent : g \in Inserted \cap {h}}
        /\ Len(agents) + 1 \in Registering'
    BY <1>i, <2>3, RegisteringMoves
  <2>5. Inserted \cap {h} = {}
    BY <1>1 DEF InsertAgent, Inserted
  <2>6. UNCHANGED <<credentials, deleting, halved>> /\ deleting \subseteq DOMAIN agents
    BY <1>1, <1>i DEF InsertAgent, TypeOK
  <2>7. QED
    BY <1>i, <2>2, <2>4, <2>5, <2>6 DEF Explained
<1>2. ASSUME NEW h \in Handlers, Consume(h) PROVE Explained(a)'
  <2>1. Registering' = Registering
    <3>1. /\ handler'[h].pc = "credential" /\ handler'[h].agent = handler[h].agent
          /\ handler[h].pc = "consume"
          /\ \A g \in Handlers \ {h} : handler'[g] = handler[g]
      BY <1>2, <1>i DEF Consume, TypeOK
    <3>2. QED
      BY <3>1 DEF Registering, Inserted
  <2>2. QED
    BY <1>2, <1>i, <2>1 DEF Consume, Explained
<1>3. ASSUME NEW h \in Handlers, StoreCredential(h) PROVE Explained(a)'
  <2>1. /\ Registering' \subseteq Registering
        /\ Registering \subseteq Registering' \cup {handler[h].agent}
        /\ handler[h].agent \in Registering
    <3>1. handler' = [handler EXCEPT ![h] = Idle] /\ h \in Inserted
      BY <1>3 DEF StoreCredential, Inserted
    <3>2. Idle \in Handler /\ Idle.pc \notin {"consume", "credential"}
      BY DEF Idle, Handler
    <3>3. /\ Registering' \subseteq Registering
          /\ Registering \subseteq Registering' \cup {handler[g].agent : g \in Inserted \cap {h}}
      BY <1>i, <3>1, <3>2, RegisteringMoves
    <3>4. handler[h].agent \in Registering
      BY <3>1 DEF Registering
    <3>5. QED
      BY <3>3, <3>4
  <2>2. QED
    BY <1>3, <1>i, <2>1 DEF StoreCredential, Explained
<1>4. ASSUME NEW h \in Handlers, RegisterFails(h) PROVE Explained(a)'
  <2>1. /\ Registering' \subseteq Registering
        /\ Registering \subseteq Registering' \cup halved'
    <3>1. Idle \in Handler /\ Idle.pc \notin {"consume", "credential"}
      BY DEF Idle, Handler
    <3>2. QED
      BY <1>4, <1>i, <3>1, RegisteringMoves DEF RegisterFails
  <2>2. halved \subseteq halved'
    BY <1>4 DEF RegisterFails
  <2>3. QED
    BY <1>4, <1>i, <2>1, <2>2 DEF RegisterFails, Explained
<1>5. ASSUME NEW b \in DOMAIN agents, DeleteRow(b) PROVE Explained(a)'
  <2>1. /\ DOMAIN agents' = DOMAIN agents
        /\ \A c \in DOMAIN agents : c # b => agents'[c] = agents[c]
        /\ ~agents'[b].row
    BY <1>5, <1>i DEF DeleteRow, TypeOK
  <2>2. Registering' = Registering
    BY <1>5 DEF DeleteRow, Registering, Inserted
  <2>3. QED
    BY <1>5, <1>i, <2>1, <2>2 DEF DeleteRow, Explained
<1>6. ASSUME NEW b \in DOMAIN agents, DeleteCredential(b) PROVE Explained(a)'
  <2>1. Registering' = Registering
    BY <1>6 DEF DeleteCredential, Registering, Inserted
  <2>2. QED
    BY <1>6, <1>i, <2>1 DEF DeleteCredential, Explained
<1>7. ASSUME NEW b \in DOMAIN agents, DeleteFails(b) PROVE Explained(a)'
  <2>1. Registering' = Registering
    BY <1>7 DEF DeleteFails, Registering, Inserted
  <2>2. QED
    BY <1>7, <1>i, <2>1 DEF DeleteFails, Explained
<1>8. CASE Crash
  <2>1. Registering' = {}
    BY <1>8 DEF Crash, Registering, Inserted, Idle
  <2>2. QED
    BY <1>8, <1>i, <2>1 DEF Crash, Explained
<1>9. ASSUME NEW h \in Handlers, NEW t \in Tokens, Validate(h, t) PROVE Explained(a)'
  <2>1. Registering' = Registering
    BY <1>9, <1>i DEF Validate, Registering, Inserted, TypeOK
  <2>2. QED
    BY <1>9, <1>i, <2>1 DEF Validate, Explained
<1>10. ASSUME UNCHANGED <<agents, credentials, handler, deleting, halved>> PROVE Explained(a)'
  BY <1>10, <1>i DEF Explained, Registering, Inserted
<1>11. QED
  BY <1>1, <1>2, <1>3, <1>4, <1>5, <1>6, <1>7, <1>8, <1>9, <1>10
  DEF Next, RegisterStep, Tick, CreateToken, Revoke, vars

\* An agent without its credential, or a credential without its agent, is one whose
\* registration or deletion is under way or did not come to its end.
THEOREM HalvesExplained == Spec => []HalvesHaveACause
<1>1. Init => HalvesInv
  BY EnrollmentTypeInit DEF Init, HalvesInv
<1>2. HalvesInv /\ [Next]_vars => HalvesInv'
  BY HalvesStep
<1>3. HalvesInv => HalvesHaveACause
  BY DEF HalvesInv, Explained, HalvesHaveACause, TypeOK, Agent
<1>4. QED
  BY <1>1, <1>2, <1>3, PTL DEF Spec

-----------------------------------------------------------------------------
(* Types.                                                                  *)

\* What a request at each program counter carries.
LEMMA Shapes ==
    ASSUME UsersTypeOK, NEW h \in Requests
    PROVE  /\ req[h].pc = "verify" => req[h].name \in Names
           /\ req[h].pc = "session" =>
                /\ req[h].name \in Names
                /\ req[h].uid \in 1..MaxId
                /\ req[h].expires \in Nat
           /\ req[h].pc \in {"sessions", "row"} => req[h].uid \in 1..MaxId
  <1>1. req[h] \in Request
    BY DEF UsersTypeOK
  <1>. QED
    BY <1>1 DEF Request

\* A new request record keeps the requests typed.
LEMMA ReqTyped ==
    ASSUME UsersTypeOK, NEW h \in Requests, NEW r \in Request, req' = [req EXCEPT ![h] = r]
    PROVE  req' \in [Requests -> Request]
  BY DEF UsersTypeOK

LEMMA RecentIsFinite ==
    ASSUME UsersTypeOK
    PROVE  /\ Recent \subseteq attempts
           /\ IsFiniteSet(Recent)
           /\ Cardinality(Recent) \in Nat
  <1>1. Recent \subseteq attempts
    BY DEF Recent
  <1>2. IsFiniteSet(attempts)
    BY DEF UsersTypeOK
  <1>. QED
    BY <1>1, <1>2, FS_Subset, FS_CardinalityType

LEMMA UsersTypeInit == ASSUME UsersInit PROVE UsersTypeOK
  <1>1. IsFiniteSet({})
    BY FS_EmptySet
  <1>2. req \in [Requests -> Request]
    <2>1. NoRequest \in Request
      BY DEF NoRequest, Request
    <2>. QED
      BY <2>1 DEF UsersInit
  <1>3. time \in 0..MaxLoginTime /\ lastId \in 1..MaxId /\ users \in [Names -> 0..lastId]
    BY UsersAssumption DEF UsersInit
  <1>4. /\ IsFiniteSet(attempts)
        /\ \A a \in attempts : a.at \in 0..MaxLoginTime
    BY <1>1 DEF UsersInit
  <1>. QED
    BY <1>2, <1>3, <1>4 DEF UsersInit, UsersTypeOK

LEMMA UsersTypeNext == ASSUME UsersTypeOK, [UsersNext]_usersVars PROVE UsersTypeOK'
  <1>. USE UsersAssumption
  <1>0. NoRequest \in Request
    BY DEF NoRequest, Request
  <1>1. ASSUME NEW h \in Requests, NEW n \in Names, Login(h, n) PROVE UsersTypeOK'
    <2>1. /\ IsFiniteSet(attempts')
          /\ \A a \in attempts' : a.at \in 0..MaxLoginTime
      BY <1>1, RecentIsFinite DEF Login, Recent, UsersTypeOK
    <2>2. [pc |-> "verify", name |-> n] \in Request
      BY DEF Request
    <2>3. req' \in [Requests -> Request]
      BY <1>0, <1>1, <2>2 DEF Login, UsersTypeOK
    <2>. QED
      BY <1>1, <2>1, <2>3 DEF Login, UsersTypeOK
  <1>2. ASSUME NEW h \in Requests, PasswordMatches(h) PROVE UsersTypeOK'
    <2>1. /\ req[h].name \in Names
          /\ users[req[h].name] # 0
      BY <1>2, Shapes DEF PasswordMatches, Rows
    <2>2. /\ users[req[h].name] \in 1..MaxId
          /\ time + MaxAge \in Nat
      BY <2>1 DEF UsersTypeOK
    <2>3. [pc |-> "session", name |-> req[h].name, uid |-> users[req[h].name],
           expires |-> time + MaxAge] \in Request
      BY <2>1, <2>2 DEF Request
    <2>4. req' = [req EXCEPT ![h] = [pc |-> "session", name |-> req[h].name,
                     uid |-> users[req[h].name], expires |-> time + MaxAge]]
      BY <1>2 DEF PasswordMatches, UsersTypeOK
    <2>5. req' \in [Requests -> Request]
      BY <2>3, <2>4, ReqTyped
    <2>. QED
      BY <1>2, <2>5 DEF PasswordMatches, UsersTypeOK
  <1>3. ASSUME NEW h \in Requests, RecordAttempt(h) PROVE UsersTypeOK'
    <2>1. IsFiniteSet(attempts')
      BY <1>3, FS_AddElement DEF RecordAttempt, UsersTypeOK
    <2>2. \A a \in attempts' : a.at \in 0..MaxLoginTime
      BY <1>3 DEF RecordAttempt, NextAttempt, UsersTypeOK
    <2>3. req' \in [Requests -> Request]
      BY <1>0, <1>3, ReqTyped DEF RecordAttempt
    <2>. QED
      BY <1>3, <2>1, <2>2, <2>3 DEF RecordAttempt, UsersTypeOK
  <1>4. ASSUME NEW h \in Requests, CreateSession(h) PROVE UsersTypeOK'
    <2>1. [uid |-> req[h].uid, who |-> req[h].name, expires |-> req[h].expires] \in Session
      BY <1>4, Shapes DEF CreateSession, Session
    <2>2. req' \in [Requests -> Request]
      BY <1>0, <1>4, ReqTyped DEF CreateSession
    <2>3. sessions' \subseteq Session
      BY <1>4, <2>1 DEF CreateSession, UsersTypeOK
    <2>. QED
      BY <1>4, <2>2, <2>3 DEF CreateSession, UsersTypeOK
  <1>5. ASSUME NEW h \in Requests, NEW uid \in 1..lastId, CountUsers(h, uid) PROVE UsersTypeOK'
    <2>1. [pc |-> "sessions", uid |-> uid] \in Request
      BY DEF Request, UsersTypeOK
    <2>2. req' \in [Requests -> Request]
      BY <1>5, <2>1, ReqTyped DEF CountUsers
    <2>3. overlapped' \in BOOLEAN
      BY <1>5 DEF CountUsers, UsersTypeOK
    <2>. QED
      BY <1>5, <2>2, <2>3 DEF CountUsers, UsersTypeOK
  <1>6. ASSUME NEW h \in Requests, DeleteSessions(h) PROVE UsersTypeOK'
    <2>1. [pc |-> "row", uid |-> req[h].uid] \in Request
      BY <1>6, Shapes DEF DeleteSessions, Request
    <2>2. req' = [req EXCEPT ![h] = [pc |-> "row", uid |-> req[h].uid]]
      BY <1>6 DEF DeleteSessions, UsersTypeOK
    <2>3. req' \in [Requests -> Request]
      BY <2>1, <2>2, ReqTyped
    <2>. QED
      BY <1>6, <2>3 DEF DeleteSessions, UsersTypeOK
  <1>7. ASSUME NEW h \in Requests, DeleteUser(h) PROVE UsersTypeOK'
    <2>1. users' \in [Names -> 0..lastId]
      BY <1>7 DEF DeleteUser, UsersTypeOK
    <2>2. req' \in [Requests -> Request]
      BY <1>0, <1>7, ReqTyped DEF DeleteUser
    <2>. QED
      BY <1>7, <2>1, <2>2 DEF DeleteUser, UsersTypeOK
  <1>8. ASSUME NEW h \in Requests, Abort(h) PROVE UsersTypeOK'
    <2>1. req' \in [Requests -> Request]
      BY <1>0, <1>8, ReqTyped DEF Abort
    <2>. QED
      BY <1>8, <2>1 DEF Abort, UsersTypeOK
  <1>9. ASSUME NEW s \in sessions, Logout(s) PROVE UsersTypeOK'
    BY <1>9 DEF Logout, UsersTypeOK
  <1>10. ASSUME NEW n \in Names, CreateUser(n) PROVE UsersTypeOK'
    BY <1>10 DEF CreateUser, UsersTypeOK
  <1>11. ASSUME Restart PROVE UsersTypeOK'
    <2>1. /\ users' \in [Names -> 0..lastId']
          /\ lastId' \in 1..MaxId
      BY <1>11 DEF Restart, UsersTypeOK
    <2>2. req' \in [Requests -> Request]
      BY <1>0, <1>11 DEF Restart
    <2>3. IsFiniteSet({})
      BY FS_EmptySet
    <2>. QED
      BY <1>11, <2>1, <2>2, <2>3 DEF Restart, UsersTypeOK
  <1>12. ASSUME PurgeSessions PROVE UsersTypeOK'
    BY <1>12 DEF PurgeSessions, UsersTypeOK
  <1>13. ASSUME UsersTick PROVE UsersTypeOK'
    BY <1>13 DEF UsersTick, UsersTypeOK
  <1>14. ASSUME UNCHANGED usersVars PROVE UsersTypeOK'
    BY <1>14 DEF usersVars, UsersTypeOK
  <1>. QED
    BY <1>1, <1>2, <1>3, <1>4, <1>5, <1>6, <1>7, <1>8, <1>9, <1>10, <1>11, <1>12,
       <1>13, <1>14 DEF UsersNext

\* Every variable keeps its type: ids never exceed the largest one given.
THEOREM UsersTypeCorrect == UsersSpec => []UsersTypeOK
  <1>1. UsersInit => UsersTypeOK
    BY UsersTypeInit
  <1>2. UsersTypeOK /\ [UsersNext]_usersVars => UsersTypeOK'
    BY UsersTypeNext
  <1>. QED
    BY <1>1, <1>2, PTL DEF UsersSpec

-----------------------------------------------------------------------------
(* Sessions.                                                               *)

\* Ids are given once: no two usernames share one, and a session or a request
\* about to create one holds an id that only its own username can have.
IdsGivenOnce ==
    /\ \A m, n \in Names : users[m] = users[n] /\ users[m] # 0 => m = n
    /\ \A s \in sessions : s.uid <= lastId
    /\ \A h \in Requests : req[h].pc = "session" =>
         /\ req[h].uid <= lastId
         /\ \A n \in Names : users[n] = req[h].uid => n = req[h].name

SessionInv == UsersTypeOK /\ IdsGivenOnce /\ SessionsKeepTheirUser

\* The parts of the invariant that only speak of users and sessions.
LEMMA UsersChange ==
    ASSUME SessionInv, UsersTypeOK',
           \A n \in Names : users'[n] = users[n] \/ users'[n] = 0
                \/ (users'[n] = lastId + 1 /\ \A m \in Names : users'[m] = lastId + 1 => m = n),
           lastId' >= lastId,
           sessions' \subseteq sessions,
           \A h \in Requests : req'[h] = req[h] \/ req'[h].pc # "session"
    PROVE  SessionInv'
  <1>1. ASSUME NEW m \in Names, NEW n \in Names, users'[m] = users'[n], users'[m] # 0
        PROVE  m = n
    BY <1>1 DEF SessionInv, UsersTypeOK, IdsGivenOnce
  <1>2. ASSUME NEW s \in sessions' PROVE s.uid <= lastId'
    BY <1>2 DEF SessionInv, UsersTypeOK, IdsGivenOnce, Session
  <1>3. ASSUME NEW s \in sessions', NEW n \in Names, users'[n] = s.uid PROVE n = s.who
    <2>1. s.uid \in 1..lastId
      BY <1>3 DEF SessionInv, UsersTypeOK, IdsGivenOnce, Session
    <2>2. users'[n] = users[n]
      BY <1>3, <2>1 DEF SessionInv, UsersTypeOK
    <2>. QED
      BY <1>3, <2>2 DEF SessionInv, SessionsKeepTheirUser
  <1>4. ASSUME NEW h \in Requests, req'[h].pc = "session"
        PROVE  /\ req'[h].uid <= lastId'
               /\ \A n \in Names : users'[n] = req'[h].uid => n = req'[h].name
    <2>1. req'[h] = req[h] /\ req[h].pc = "session"
      BY <1>4
    <2>2. req[h].uid \in 1..lastId
      BY <2>1, Shapes DEF SessionInv, UsersTypeOK, IdsGivenOnce
    <2>3. ASSUME NEW n \in Names, users'[n] = req[h].uid PROVE n = req[h].name
      <3>1. users'[n] = users[n]
        BY <2>2, <2>3 DEF SessionInv, UsersTypeOK
      <3>. QED
        BY <2>1, <2>3, <3>1 DEF SessionInv, IdsGivenOnce
    <2>. QED
      BY <2>1, <2>2, <2>3 DEF SessionInv, UsersTypeOK
  <1>. QED
    BY <1>1, <1>2, <1>3, <1>4 DEF SessionInv, IdsGivenOnce, SessionsKeepTheirUser

LEMMA SessionNext == ASSUME SessionInv, [UsersNext]_usersVars PROVE SessionInv'
  <1>. USE UsersAssumption
  <1>0. UsersTypeOK /\ UsersTypeOK'
    BY UsersTypeNext DEF SessionInv
  <1>1. ASSUME NEW h \in Requests, PasswordMatches(h) PROVE SessionInv'
    <2>1. /\ req[h].name \in Names
          /\ users[req[h].name] # 0
          /\ users' = users /\ lastId' = lastId /\ sessions' = sessions
      BY <1>0, <1>1, Shapes DEF PasswordMatches, Rows
    <2>2. req' = [req EXCEPT ![h] = [pc |-> "session", name |-> req[h].name,
                     uid |-> users[req[h].name], expires |-> time + MaxAge]]
      BY <1>0, <1>1 DEF PasswordMatches, UsersTypeOK
    <2>3. /\ req'[h].uid = users[req[h].name]
          /\ req'[h].name = req[h].name
          /\ \A g \in Requests \ {h} : req'[g] = req[g]
      BY <1>0, <2>2 DEF UsersTypeOK
    <2>4. users[req[h].name] <= lastId
      BY <1>0, <2>1 DEF UsersTypeOK
    <2>5. \A n \in Names : users[n] = users[req[h].name] => n = req[h].name
      BY <2>1 DEF SessionInv, IdsGivenOnce
    <2>6. ASSUME NEW g \in Requests, req'[g].pc = "session"
          PROVE  /\ req'[g].uid <= lastId'
                 /\ \A n \in Names : users'[n] = req'[g].uid => n = req'[g].name
      <3>1. CASE g = h
        BY <2>1, <2>3, <2>4, <2>5, <3>1
      <3>2. CASE g # h
        BY <2>1, <2>3, <2>6, <3>2 DEF SessionInv, IdsGivenOnce
      <3>. QED
        BY <3>1, <3>2
    <2>. QED
      BY <1>0, <2>1, <2>6 DEF SessionInv, IdsGivenOnce, SessionsKeepTheirUser
  <1>2. ASSUME NEW h \in Requests, CreateSession(h) PROVE SessionInv'
    <2>1. /\ req[h].pc = "session"
          /\ users' = users /\ lastId' = lastId
          /\ sessions' = sessions \cup {[uid |-> req[h].uid, who |-> req[h].name,
                                         expires |-> req[h].expires]}
          /\ \A g \in Requests : req'[g] = req[g] \/ req'[g].pc = "idle"
      BY <1>0, <1>2 DEF CreateSession, UsersTypeOK, NoRequest
    <2>2. /\ req[h].uid <= lastId
          /\ \A n \in Names : users[n] = req[h].uid => n = req[h].name
      BY <2>1 DEF SessionInv, IdsGivenOnce
    <2>3. ASSUME NEW s \in sessions'
          PROVE  /\ s.uid <= lastId'
                 /\ \A n \in Names : users'[n] = s.uid => n = s.who
      <3>1. CASE s \in sessions
        BY <2>1, <3>1 DEF SessionInv, IdsGivenOnce, SessionsKeepTheirUser
      <3>2. CASE s \notin sessions
        BY <2>1, <2>2, <2>3, <3>2
      <3>. QED
        BY <3>1, <3>2
    <2>4. ASSUME NEW g \in Requests, req'[g].pc = "session"
          PROVE  /\ req'[g].uid <= lastId'
                 /\ \A n \in Names : users'[n] = req'[g].uid => n = req'[g].name
      BY <2>1, <2>4 DEF SessionInv, IdsGivenOnce
    <2>. QED
      BY <1>0, <2>1, <2>3, <2>4 DEF SessionInv, IdsGivenOnce, SessionsKeepTheirUser
  <1>3. ASSUME NEW h \in Requests, NEW n \in Names, Login(h, n) PROVE SessionInv'
    <2>1. \A g \in Requests : req'[g] = req[g] \/ req'[g].pc # "session"
      BY <1>0, <1>3 DEF Login, UsersTypeOK, NoRequest
    <2>. QED
      BY <1>0, <1>3, <2>1, UsersChange DEF Login, UsersTypeOK
  <1>4. ASSUME NEW h \in Requests, RecordAttempt(h) \/ Abort(h) PROVE SessionInv'
    <2>1. \A g \in Requests : req'[g] = req[g] \/ req'[g].pc # "session"
      BY <1>0, <1>4 DEF RecordAttempt, Abort, UsersTypeOK, NoRequest
    <2>. QED
      BY <1>0, <1>4, <2>1, UsersChange DEF RecordAttempt, Abort, UsersTypeOK
  <1>5. ASSUME NEW h \in Requests, NEW uid \in 1..lastId, CountUsers(h, uid) PROVE SessionInv'
    <2>1. \A g \in Requests : req'[g] = req[g] \/ req'[g].pc # "session"
      BY <1>0, <1>5 DEF CountUsers, UsersTypeOK
    <2>. QED
      BY <1>0, <1>5, <2>1, UsersChange DEF CountUsers, UsersTypeOK
  <1>6. ASSUME NEW h \in Requests, DeleteSessions(h) PROVE SessionInv'
    <2>1. \A g \in Requests : req'[g] = req[g] \/ req'[g].pc # "session"
      BY <1>0, <1>6 DEF DeleteSessions, UsersTypeOK
    <2>. QED
      BY <1>0, <1>6, <2>1, UsersChange DEF DeleteSessions, UsersTypeOK
  <1>7. ASSUME NEW h \in Requests, DeleteUser(h) PROVE SessionInv'
    <2>1. \A g \in Requests : req'[g] = req[g] \/ req'[g].pc # "session"
      BY <1>0, <1>7 DEF DeleteUser, UsersTypeOK, NoRequest
    <2>2. \A n \in Names : users'[n] = users[n] \/ users'[n] = 0
      BY <1>0, <1>7 DEF DeleteUser, UsersTypeOK
    <2>. QED
      BY <1>0, <1>7, <2>1, <2>2, UsersChange DEF DeleteUser, UsersTypeOK
  <1>8. ASSUME NEW n \in Names, CreateUser(n) PROVE SessionInv'
    <2>1. /\ \A m \in Names : users'[m] = IF m = n THEN lastId + 1 ELSE users[m]
          /\ \A m \in Names : users[m] <= lastId
      BY <1>0, <1>8 DEF CreateUser, UsersTypeOK
    <2>2. \A k \in Names : users'[k] = users[k] \/ users'[k] = 0
                \/ (users'[k] = lastId + 1 /\ \A m \in Names : users'[m] = lastId + 1 => m = k)
      BY <1>0, <2>1 DEF UsersTypeOK
    <2>. QED
      BY <1>0, <1>8, <2>2, UsersChange DEF CreateUser, UsersTypeOK
  <1>9. ASSUME Restart PROVE SessionInv'
    <2>1. \A g \in Requests : req'[g].pc # "session"
      BY <1>9 DEF Restart, NoRequest
    <2>2. \A m \in Names : users[m] <= lastId
      BY <1>0 DEF UsersTypeOK
    <2>3. \A m \in Names : users'[m] = users[m]
             \/ (m = Admin /\ users'[m] = lastId + 1 /\ \A k \in Names \ {Admin} : users'[k] = users[k])
      BY <1>0, <1>9 DEF Restart, UsersTypeOK
    <2>4. \A k \in Names : users'[k] = users[k] \/ users'[k] = 0
                \/ (users'[k] = lastId + 1 /\ \A m \in Names : users'[m] = lastId + 1 => m = k)
      BY <1>0, <2>2, <2>3 DEF UsersTypeOK
    <2>5. lastId' >= lastId /\ sessions' \subseteq sessions
      BY <1>0, <1>9 DEF Restart, UsersTypeOK
    <2>. QED
      BY <1>0, <2>1, <2>4, <2>5, UsersChange
  <1>10. ASSUME (\E s \in sessions : Logout(s)) \/ PurgeSessions PROVE SessionInv'
    <2>1. /\ users' = users /\ lastId' = lastId /\ req' = req
          /\ sessions' \subseteq sessions
      BY <1>10 DEF Logout, PurgeSessions
    <2>. QED
      BY <1>0, <2>1, UsersChange DEF UsersTypeOK
  <1>11. ASSUME UsersTick \/ UNCHANGED usersVars PROVE SessionInv'
    <2>1. users' = users /\ lastId' = lastId /\ req' = req /\ sessions' = sessions
      BY <1>11 DEF UsersTick, usersVars
    <2>. QED
      BY <1>0, <2>1, UsersChange DEF UsersTypeOK
  <1>. QED
    BY <1>1, <1>2, <1>3, <1>4, <1>5, <1>6, <1>7, <1>8, <1>9, <1>10, <1>11 DEF UsersNext

\* validate_session: whatever users are deleted, replaced or added after a login,
\* its session never finds another username.
THEOREM SessionsKept == UsersSpec => []SessionsKeepTheirUser
  <1>1. UsersInit => SessionInv
    <2>. SUFFICES ASSUME UsersInit PROVE SessionInv
      OBVIOUS
    <2>2. UsersTypeOK
      BY UsersTypeInit
    <2>3. IdsGivenOnce /\ SessionsKeepTheirUser
      BY <2>2 DEF UsersInit, IdsGivenOnce, SessionsKeepTheirUser, NoRequest
    <2>. QED
      BY <2>2, <2>3 DEF SessionInv
  <1>2. SessionInv /\ [UsersNext]_usersVars => SessionInv'
    BY SessionNext
  <1>3. SessionInv => SessionsKeepTheirUser
    BY DEF SessionInv
  <1>. QED
    BY <1>1, <1>2, <1>3, PTL DEF UsersSpec

-----------------------------------------------------------------------------
(* The last user.                                                          *)

\* As long as no two deletions overlapped there is a user, at most one deletion is
\* past its check, and while it is there are two users: it removes one of them.
LastUserInv ==
    /\ SessionInv
    /\ ~overlapped =>
         /\ Rows # {}
         /\ \A g, h \in Deleting : g = h
         /\ Deleting # {} => \E m, n \in Rows : m # n

LEMMA MoreThanOne ==
    ASSUME UsersTypeOK, Cardinality(Rows) > 1
    PROVE  \E m, n \in Rows : m # n
  <1>1. IsFiniteSet(Rows)
    BY UsersAssumption, FS_Subset DEF Rows
  <1>2. SUFFICES ASSUME \A m, n \in Rows : m = n PROVE FALSE
    OBVIOUS
  <1>3. Rows # {}
    BY FS_EmptySet
  <1>4. PICK n \in Rows : TRUE
    BY <1>3
  <1>5. Rows = {n}
    BY <1>2, <1>4
  <1>. QED
    BY <1>5, FS_Singleton

\* Steps that leave the rows of users in place and start no deletion.
LEMMA RowsStay ==
    ASSUME LastUserInv, SessionInv',
           Rows \subseteq Rows', Deleting' \subseteq Deleting, overlapped' = overlapped
    PROVE  LastUserInv'
  BY DEF LastUserInv

LEMMA LastUserNext == ASSUME LastUserInv, [UsersNext]_usersVars PROVE LastUserInv'
  <1>. USE UsersAssumption
  <1>0. UsersTypeOK /\ UsersTypeOK' /\ SessionInv /\ SessionInv'
    BY SessionNext, UsersTypeNext DEF LastUserInv, SessionInv
  <1>1. ASSUME NEW h \in Requests, NEW uid \in 1..lastId, CountUsers(h, uid) PROVE LastUserInv'
    <2>1. SUFFICES ASSUME ~overlapped'
                   PROVE  /\ Rows' # {}
                          /\ \A f, g \in Deleting' : f = g
                          /\ \E m, n \in Rows' : m # n
      BY <1>0 DEF LastUserInv
    <2>2. Deleting = {} /\ ~overlapped
      BY <1>1, <2>1 DEF CountUsers
    <2>3. Deleting' \subseteq {h}
      BY <1>0, <1>1, <2>2 DEF CountUsers, Deleting, UsersTypeOK
    <2>4. \E m, n \in Rows : m # n
      BY <1>0, <1>1, MoreThanOne DEF CountUsers
    <2>5. Rows' = Rows
      BY <1>1 DEF CountUsers, Rows
    <2>. QED
      BY <2>3, <2>4, <2>5
  <1>2. ASSUME NEW h \in Requests, DeleteSessions(h) PROVE LastUserInv'
    <2>1. Deleting' = Deleting /\ Rows' = Rows /\ overlapped' = overlapped
      BY <1>0, <1>2 DEF DeleteSessions, Deleting, Rows, UsersTypeOK
    <2>. QED
      BY <1>0, <2>1, RowsStay
  <1>3. ASSUME NEW h \in Requests, DeleteUser(h) PROVE LastUserInv'
    <2>1. SUFFICES ASSUME ~overlapped'
                   PROVE  Rows' # {} /\ Deleting' = {}
      BY <1>0 DEF LastUserInv
    <2>2. ~overlapped /\ h \in Deleting
      BY <1>3, <2>1 DEF DeleteUser, Deleting
    <2>3. Deleting = {h}
      BY <2>2 DEF LastUserInv
    <2>4. Deleting' = {}
      BY <1>0, <1>3, <2>3 DEF DeleteUser, Deleting, UsersTypeOK, NoRequest
    <2>5. PICK m \in Rows, n \in Rows : m # n
      BY <2>2 DEF LastUserInv
    <2>6. users[m] # users[n]
      BY <1>0, <2>5 DEF SessionInv, IdsGivenOnce, Rows
    <2>7. m \in Rows' \/ n \in Rows'
      BY <1>0, <1>3, <2>5, <2>6 DEF DeleteUser, Rows, UsersTypeOK
    <2>. QED
      BY <2>4, <2>7
  <1>4. ASSUME NEW n \in Names, CreateUser(n) PROVE LastUserInv'
    <2>1. Rows \subseteq Rows'
      BY <1>0, <1>4 DEF CreateUser, Rows, UsersTypeOK
    <2>2. Deleting' = Deleting /\ overlapped' = overlapped
      BY <1>4 DEF CreateUser, Deleting
    <2>. QED
      BY <1>0, <2>1, <2>2, RowsStay
  <1>5. ASSUME Restart PROVE LastUserInv'
    <2>1. Deleting' = {}
      BY <1>5 DEF Restart, Deleting, NoRequest
    <2>2. Rows' # {}
      BY <1>0, <1>5 DEF Restart, Rows, UsersTypeOK
    <2>. QED
      BY <1>0, <2>1, <2>2 DEF LastUserInv
  <1>6. ASSUME NEW h \in Requests,
               \/ \E n \in Names : Login(h, n)
               \/ PasswordMatches(h) \/ RecordAttempt(h) \/ CreateSession(h) \/ Abort(h)
        PROVE  LastUserInv'
    <2>1. Rows' = Rows /\ overlapped' = overlapped
      BY <1>6 DEF Login, PasswordMatches, RecordAttempt, CreateSession, Abort, Rows
    <2>2. req'[h].pc \notin {"sessions", "row"} /\ \A g \in Requests \ {h} : req'[g] = req[g]
      BY <1>0, <1>6 DEF Login, PasswordMatches, RecordAttempt, CreateSession, Abort, UsersTypeOK, NoRequest
    <2>3. Deleting' \subseteq Deleting
      BY <2>2 DEF Deleting
    <2>. QED
      BY <1>0, <2>1, <2>3, RowsStay
  <1>7. ASSUME (\E s \in sessions : Logout(s)) \/ PurgeSessions \/ UsersTick \/ UNCHANGED usersVars
        PROVE  LastUserInv'
    <2>1. Rows' = Rows /\ Deleting' = Deleting /\ overlapped' = overlapped
      BY <1>7 DEF Logout, PurgeSessions, UsersTick, usersVars, Rows, Deleting
    <2>. QED
      BY <1>0, <2>1, RowsStay
  <1>. QED
    BY <1>1, <1>2, <1>3, <1>4, <1>5, <1>6, <1>7 DEF UsersNext

\* delete_user: a database without users is only ever the result of two deletions
\* that overlapped.
THEOREM LastUserKept == UsersSpec => []LastUserStays
  <1>1. UsersInit => LastUserInv
    <2>. SUFFICES ASSUME UsersInit PROVE LastUserInv
      OBVIOUS
    <2>1. SessionInv
      BY UsersTypeInit DEF UsersInit, SessionInv, IdsGivenOnce, SessionsKeepTheirUser, NoRequest
    <2>2. Admin \in Rows
      BY UsersAssumption DEF UsersInit, Rows
    <2>3. Deleting = {}
      BY DEF UsersInit, Deleting, NoRequest
    <2>. QED
      BY <2>1, <2>2, <2>3 DEF LastUserInv
  <1>2. LastUserInv /\ [UsersNext]_usersVars => LastUserInv'
    BY LastUserNext
  <1>3. LastUserInv => LastUserStays
    BY DEF LastUserInv, LastUserStays, SessionInv, UsersTypeOK
  <1>. QED
    BY <1>1, <1>2, <1>3, PTL DEF UsersSpec

-----------------------------------------------------------------------------
(* The rate limit.                                                         *)

Verifying == {h \in Requests : req[h].pc = "verify"}

\* A request past the check counts as the failure it may become.
RateInv ==
    /\ UsersTypeOK
    /\ Cardinality(Recent) + Cardinality(Verifying) <= RateLimit + Cardinality(Requests) - 1

LEMMA VerifyingIsFinite ==
    /\ IsFiniteSet(Verifying)
    /\ Cardinality(Verifying) \in Nat
    /\ Cardinality(Verifying) <= Cardinality(Requests)
    /\ Cardinality(Requests) \in Nat
  BY UsersAssumption, FS_Subset, FS_CardinalityType DEF Verifying

\* Steps that record no attempt and let no request past the check.
LEMMA NothingRecorded ==
    ASSUME RateInv, UsersTypeOK', Recent' \subseteq Recent, Verifying' \subseteq Verifying
    PROVE  RateInv'
  <1>1. Cardinality(Recent') <= Cardinality(Recent) /\ Cardinality(Recent') \in Nat
    BY RecentIsFinite, FS_Subset, FS_CardinalityType DEF RateInv
  <1>2. Cardinality(Verifying') <= Cardinality(Verifying) /\ Cardinality(Verifying') \in Nat
    BY VerifyingIsFinite, FS_Subset, FS_CardinalityType
  <1>. QED
    BY <1>1, <1>2, RecentIsFinite, VerifyingIsFinite, UsersAssumption DEF RateInv

LEMMA RateNext == ASSUME RateInv, [UsersNext]_usersVars PROVE RateInv'
  <1>. USE UsersAssumption
  <1>0. UsersTypeOK /\ UsersTypeOK'
    BY UsersTypeNext DEF RateInv
  <1>1. ASSUME NEW h \in Requests, NEW n \in Names, Login(h, n) PROVE RateInv'
    <2>1. Recent' = Recent
      BY <1>1 DEF Login, Recent
    <2>2. CASE Cardinality(Recent) < RateLimit
      <3>1. h \notin Verifying /\ Verifying' = Verifying \cup {h}
        BY <1>0, <1>1, <2>2 DEF Login, Verifying, UsersTypeOK, NoRequest
      <3>2. Cardinality(Verifying') = Cardinality(Verifying) + 1
        BY <3>1, VerifyingIsFinite, FS_AddElement
      <3>3. Cardinality(Verifying') <= Cardinality(Requests)
        <4>1. Verifying' \subseteq Requests
          BY DEF Verifying
        <4>. QED
          BY <4>1, FS_Subset
      <3>. QED
        BY <1>0, <2>1, <2>2, <3>2, <3>3, RecentIsFinite, VerifyingIsFinite DEF RateInv
    <2>3. CASE ~(Cardinality(Recent) < RateLimit)
      <3>1. Verifying' = Verifying
        BY <1>0, <1>1, <2>3 DEF Login, Verifying, UsersTypeOK, NoRequest
      <3>. QED
        BY <1>0, <2>1, <3>1, NothingRecorded
    <2>. QED
      BY <2>2, <2>3
  <1>2. ASSUME NEW h \in Requests, RecordAttempt(h) PROVE RateInv'
    <2>1. h \in Verifying /\ Verifying' = Verifying \ {h}
      BY <1>0, <1>2 DEF RecordAttempt, Verifying, UsersTypeOK, NoRequest
    <2>2. Cardinality(Verifying') = Cardinality(Verifying) - 1
      BY <2>1, VerifyingIsFinite, FS_RemoveElement
    <2>3. Recent' \subseteq Recent \cup {NextAttempt(time)}
      BY <1>2 DEF RecordAttempt, Recent
    <2>4. /\ IsFiniteSet(Recent \cup {NextAttempt(time)})
          /\ Cardinality(Recent \cup {NextAttempt(time)}) <= Cardinality(Recent) + 1
      <3>. DEFINE a == NextAttempt(time)
      <3>. HIDE DEF a
      <3>1. IsFiniteSet(Recent) /\ Cardinality(Recent) \in Nat
        BY <1>0, RecentIsFinite
      <3>2. /\ IsFiniteSet(Recent \cup {a})
            /\ Cardinality(Recent \cup {a}) <= Cardinality(Recent) + 1
        <4>. DEFINE S == Recent
        <4>1. \/ Cardinality(S \cup {a}) = Cardinality(S)
              \/ Cardinality(S \cup {a}) = Cardinality(S) + 1
          <5>. HIDE DEF S
          <5>1. IsFiniteSet(S)
            BY <3>1 DEF S
          <5>. QED
            BY <5>1, FS_AddElement
        <4>2. IsFiniteSet(S \cup {a})
          BY <3>1, FS_AddElement
        <4>. QED
          BY <3>1, <4>1, <4>2
      <3>. QED
        BY <3>2 DEF a
    <2>5. Cardinality(Recent') <= Cardinality(Recent) + 1 /\ Cardinality(Recent') \in Nat
      <3>1. /\ Cardinality(Recent') <= Cardinality(Recent \cup {NextAttempt(time)})
            /\ Cardinality(Recent') \in Nat
            /\ Cardinality(Recent \cup {NextAttempt(time)}) \in Nat
        BY <2>3, <2>4, FS_Subset, FS_CardinalityType
      <3>. QED
        BY <1>0, <2>4, <3>1, RecentIsFinite
    <2>. QED
      BY <1>0, <2>2, <2>5, RecentIsFinite, VerifyingIsFinite DEF RateInv
  <1>3. ASSUME NEW h \in Requests,
               \/ PasswordMatches(h) \/ CreateSession(h)
               \/ \E uid \in 1..lastId : CountUsers(h, uid)
               \/ DeleteSessions(h) \/ DeleteUser(h) \/ Abort(h)
        PROVE  RateInv'
    <2>1. Recent' = Recent
      BY <1>3 DEF PasswordMatches, CreateSession, CountUsers, DeleteSessions, DeleteUser,
                  Abort, Recent
    <2>2. req'[h].pc # "verify" /\ \A g \in Requests \ {h} : req'[g] = req[g]
      BY <1>0, <1>3 DEF PasswordMatches, CreateSession, CountUsers, DeleteSessions,
                        DeleteUser, Abort, UsersTypeOK, NoRequest
    <2>3. Verifying' \subseteq Verifying
      BY <2>2 DEF Verifying
    <2>. QED
      BY <1>0, <2>1, <2>3, NothingRecorded
  <1>4. ASSUME Restart PROVE RateInv'
    <2>1. Recent' = {} /\ Verifying' = {}
      BY <1>4 DEF Restart, Recent, Verifying, NoRequest
    <2>. QED
      BY <1>0, <2>1, NothingRecorded
  <1>5. ASSUME (\E n \in Names : CreateUser(n)) \/ (\E s \in sessions : Logout(s))
               \/ PurgeSessions \/ UsersTick \/ UNCHANGED usersVars
        PROVE  RateInv'
    <2>1. attempts' = attempts /\ req' = req /\ time' >= time
      BY <1>0, <1>5 DEF CreateUser, Logout, PurgeSessions, UsersTick, usersVars, UsersTypeOK
    <2>2. Recent' \subseteq Recent
      <3>1. \A a \in attempts : a.at \in Nat
        BY <1>0 DEF UsersTypeOK
      <3>2. time \in Nat /\ time' \in Nat
        BY <1>0 DEF UsersTypeOK
      <3>3. \A a \in attempts : a.at + RateWindow > time' => a.at + RateWindow > time
        BY <2>1, <3>1, <3>2
      <3>. QED
        BY <2>1, <3>3 DEF Recent
    <2>3. Verifying' = Verifying
      BY <2>1 DEF Verifying
    <2>. QED
      BY <1>0, <2>2, <2>3, NothingRecorded
  <1>. QED
    BY <1>1, <1>2, <1>3, <1>4, <1>5 DEF UsersNext

\* check_rate_limit and record_attempt: failed attempts of a window exceed the
\* limit by less than the number of requests handled at the same time.
THEOREM FailuresBounded == UsersSpec => []FailuresAreBounded
  <1>1. UsersInit => RateInv
    <2>. SUFFICES ASSUME UsersInit PROVE RateInv
      OBVIOUS
    <2>1. Recent = {} /\ Verifying = {}
      BY DEF UsersInit, Recent, Verifying, NoRequest
    <2>2. Cardinality(Requests) >= 1
      <3>1. Cardinality(Requests) # 0
        BY UsersAssumption, FS_EmptySet
      <3>. QED
        BY <3>1, VerifyingIsFinite
    <2>. QED
      BY <2>1, <2>2, UsersTypeInit, FS_EmptySet, UsersAssumption, VerifyingIsFinite DEF RateInv
  <1>2. RateInv /\ [UsersNext]_usersVars => RateInv'
    BY RateNext
  <1>3. RateInv => FailuresAreBounded
    BY RecentIsFinite, VerifyingIsFinite, UsersAssumption DEF RateInv, FailuresAreBounded
  <1>. QED
    BY <1>1, <1>2, <1>3, PTL DEF UsersSpec

-----------------------------------------------------------------------------
(* Both together.                                                          *)

\* Enrolment and login behave side by side as they do alone.
THEOREM AccountsRunComponents == MCSpec => Spec /\ UsersSpec
<1>1. MCInit => Init /\ UsersInit
  BY DEF MCInit
<1>2. [MCNext]_<<vars, usersVars, active>> => [Next]_vars /\ [UsersNext]_usersVars
  BY DEF MCNext
<1>. QED
  BY <1>1, <1>2, PTL DEF MCSpec, Spec, UsersSpec

\* Who may speak for an agent and who may log in: the invariants of the accounts run, all
\* at once and for any tokens, requests, usernames and limits.
THEOREM AccountsAreSafe ==
    MCSpec => [](/\ OveruseIsBounded /\ CredentialsAreCounted /\ HalvesHaveACause
                 /\ SessionsKeepTheirUser /\ LastUserStays /\ FailuresAreBounded)
  BY AccountsRunComponents, OveruseBounded, CredentialsCounted, HalvesExplained, SessionsKept,
     LastUserKept, FailuresBounded, PTL

=============================================================================
