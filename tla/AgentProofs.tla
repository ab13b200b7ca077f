----------------------------- MODULE AgentProofs -----------------------------
(***************************************************************************)
(* Proofs about Agent, for any number of taps and checks: what an app      *)
(* whose user waits for answers shows, how often it registers, and when a  *)
(* report can lack an identity.                                            *)
(***************************************************************************)
EXTENDS Agent, FiniteSetTheorems, TLAPS

SessionKind == Login \cup {"logout"}

\* The types the argument needs.  (That lost is a number takes the finiteness of
\* ops in general; for a user who waits it follows from OneSession.)
Typed ==
    /\ agentId \in Nat /\ saved = agentId
    /\ agents \in Nat /\ logouts \in Nat /\ taps \in Nat
    /\ form \in BOOLEAN /\ overlap \in BOOLEAN /\ late \in BOOLEAN /\ running \in BOOLEAN
    /\ ops \subseteq [kind: Kind, n: Nat, id: Nat]
    /\ ~ running => ops = {}
    /\ \A o \in ops : o.id # Nil => o.kind = "register"

\* A user who waits for the answer has one request of the session under way; a
\* login has an identity, a registration does not have one yet.
OneSession ==
    ~ overlap =>
        /\ lost \in Nat
        /\ \A o, p \in ops : o.kind \in SessionKind /\ p.kind \in SessionKind => o = p
        /\ \A o \in ops : o.kind \in {"login1", "login2"} => agentId # Nil
        /\ \A o \in ops : o.kind = "register" => agentId = Nil

\* Whom the registered agents belong to: this app, an answer under way to it, a
\* logout, or nobody.
Answered == \E o \in ops : o.id # Nil
Counted ==
    ~ overlap =>
        agents <= logouts + lost + (IF agentId # Nil THEN 1 ELSE 0) + (IF Answered THEN 1 ELSE 0)

AgentInv == Typed /\ OneSession /\ Counted /\ FormWhenOut /\ NilOnlyAfterLogout

\* The kinds of requests are told apart.
LEMMA Kinds ==
    /\ SessionKind = {"register", "login1", "login2", "logout"}
    /\ Check \cap SessionKind = {}
    /\ SessionKind \cup Check = Kind
  BY DEF SessionKind, Login, Check, Kind

\* The fields of a new request.
LEMMA OpFields ==
    ASSUME NEW kind \in Kind, NEW n \in Nat
    PROVE  /\ Op(kind, n) \in [kind: Kind, n: Nat, id: Nat]
           /\ Op(kind, n).kind = kind /\ Op(kind, n).id = Nil
  BY DEF Op, Nil

\* The first state satisfies the invariant.
LEMMA AgentInit == Init => AgentInv
  <1> SUFFICES ASSUME Init PROVE AgentInv
    OBVIOUS
  <1>1. /\ agentId = 0 /\ saved = 0 /\ agents = 0 /\ logouts = 0 /\ taps = 0 /\ lost = 0
        /\ ops = {}
    BY DEF Init, Nil
  <1>2. running = FALSE /\ form = FALSE /\ overlap = FALSE /\ late = FALSE
    BY DEF Init
  <1>3. Typed
    BY <1>1, <1>2 DEF Typed
  <1>4. OneSession /\ Counted
    BY <1>1 DEF OneSession, Counted
  <1> QED
    BY <1>2, <1>3, <1>4 DEF AgentInv, FormWhenOut, NilOnlyAfterLogout

\* The app may end anywhere.
LEMMA EndStep ==
    ASSUME AgentInv, End
    PROVE  AgentInv'
  <1> DEFINE S == {o \in ops : o.id # Nil}
  <1>1. ASSUME ~ overlap
        PROVE  Cardinality(S) = IF Answered THEN 1 ELSE 0
    <2>1. CASE Answered
      <3>1. PICK o \in ops : o.id # Nil
        BY <2>1 DEF Answered
      <3>2. S = {o}
        BY <1>1, <3>1, Kinds DEF AgentInv, Typed, OneSession
      <3> QED BY <2>1, <3>2, FS_Singleton
    <2>2. CASE ~ Answered
      <3>1. S = {}
        BY <2>2 DEF Answered
      <3> QED BY <2>2, <3>1, FS_EmptySet
    <2> QED BY <2>1, <2>2
  <1>2. /\ running' = FALSE /\ form' = FALSE /\ ops' = {} /\ late' = FALSE
        /\ lost' = lost + Cardinality(S)
        /\ UNCHANGED <<agentId, saved, taps, agents, overlap, logouts>>
    BY DEF End
  <1>3. Typed'
    BY <1>2 DEF AgentInv, Typed
  <1>4. OneSession'
    BY <1>1, <1>2 DEF AgentInv, OneSession
  <1>5. Counted'
    BY <1>1, <1>2 DEF AgentInv, Typed, OneSession, Counted, Answered
  <1> QED
    BY <1>2, <1>3, <1>4, <1>5 DEF AgentInv, FormWhenOut, NilOnlyAfterLogout

\* The taps of the user, and the app that is started or comes to the foreground.
LEMMA UserStep ==
    ASSUME AgentInv, Launch \/ willEnterForeground \/ logInWithUsername \/ logoutAgent
    PROVE  AgentInv'
  <1>1. CASE Launch
    <2>1. /\ running' = TRUE /\ ops = {} /\ agentId' = agentId /\ form' = (agentId = Nil)
          /\ UNCHANGED <<saved, ops, taps, agents, history>>
      BY <1>1 DEF Launch, AgentInv, Typed
    <2>2. UNCHANGED <<overlap, logouts, lost, late>>
      BY <2>1 DEF history
    <2>3. Typed'
      BY <2>1, <2>2 DEF AgentInv, Typed
    <2>4. OneSession' /\ Counted'
      BY <2>1, <2>2 DEF AgentInv, OneSession, Counted, Answered
    <2> QED
      BY <2>1, <2>3, <2>4 DEF AgentInv, FormWhenOut, NilOnlyAfterLogout, Pending
  <1>2. CASE willEnterForeground
    <2>1. /\ form' = (form \/ ~ isLoggedIn)
          /\ UNCHANGED <<running, agentId, saved, ops, taps, agents, history>>
      BY <1>2 DEF willEnterForeground, performLoginIfRequired
    <2>2. UNCHANGED <<overlap, logouts, lost, late>>
      BY <2>1 DEF history
    <2>3. Typed'
      BY <2>1, <2>2 DEF AgentInv, Typed
    <2>4. OneSession' /\ Counted'
      BY <2>1, <2>2 DEF AgentInv, OneSession, Counted, Answered
    <2>5. FormWhenOut'
      BY <2>1 DEF FormWhenOut, isLoggedIn
    <2>6. NilOnlyAfterLogout'
      BY <2>1, <2>2 DEF AgentInv, NilOnlyAfterLogout, Pending, isLoggedIn
    <2> QED
      BY <2>3, <2>4, <2>5, <2>6 DEF AgentInv
  <1>3. ASSUME NEW kind \in SessionKind, running, taps \in Nat,
               taps' = taps + 1,
               ops' = ops \cup {Op(kind, taps + 1)},
               overlap' = (overlap \/ Pending(SessionKind)),
               kind \in {"login1", "login2"} => agentId # Nil,
               kind = "register" => agentId = Nil,
               UNCHANGED <<running, session, agents, logouts, lost, late>>
        PROVE  AgentInv'
    <2>0. UNCHANGED <<agentId, saved, form>>
      BY <1>3 DEF session
    <2>1. /\ Op(kind, taps + 1) \in [kind: Kind, n: Nat, id: Nat]
          /\ Op(kind, taps + 1).kind = kind /\ Op(kind, taps + 1).id = Nil
      BY <1>3, OpFields, Kinds
    <2>2. overlap' \in BOOLEAN
      BY <1>3 DEF AgentInv, Typed
    <2>3. Typed'
      BY <1>3, <2>0, <2>1, <2>2 DEF AgentInv, Typed
    <2>4. ASSUME ~ overlap' PROVE ~ overlap /\ \A o \in ops : o.kind \notin SessionKind
      BY <1>3, <2>4 DEF Pending
    <2>5. OneSession'
      BY <1>3, <2>0, <2>1, <2>4, Kinds DEF AgentInv, OneSession
    <2>6. Answered' <=> Answered
      BY <1>3, <2>1 DEF Answered
    <2>7. Counted'
      BY <1>3, <2>0, <2>4, <2>6 DEF AgentInv, Counted
    <2>8. FormWhenOut'
      BY <1>3, <2>0, <2>4 DEF AgentInv, FormWhenOut
    <2>9. ASSUME Pending(Check)' PROVE Pending(Check)
      BY <1>3, <2>1, <2>9, Kinds DEF Pending
    <2>10. NilOnlyAfterLogout'
      BY <1>3, <2>0, <2>4, <2>9 DEF AgentInv, NilOnlyAfterLogout, isLoggedIn
    <2> QED
      BY <2>3, <2>5, <2>7, <2>8, <2>10 DEF AgentInv
  <1>4. CASE logInWithUsername
    <2>1. taps \in Nat
      BY DEF AgentInv, Typed
    <2>2. CASE agentId = Nil
      BY <1>3, <1>4, <2>1, <2>2, Kinds DEF logInWithUsername, SessionKind
    <2>3. CASE agentId # Nil
      BY <1>3, <1>4, <2>1, <2>3, Kinds DEF logInWithUsername, SessionKind
    <2> QED BY <2>2, <2>3
  <1>5. CASE logoutAgent
    <2>1. taps \in Nat
      BY DEF AgentInv, Typed
    <2>2. CASE agentId = Nil
      BY <1>5, <2>2, EndStep DEF logoutAgent
    <2>3. CASE agentId # Nil
      BY <1>3, <1>5, <2>1, <2>3, Kinds DEF logoutAgent, SessionKind
    <2> QED BY <2>2, <2>3
  <1> QED BY <1>1, <1>2, <1>4, <1>5

\* What a block leaves of the other requests.
LEMMA Others ==
    ASSUME AgentInv, NEW o \in ops, o.kind \in SessionKind, ~ overlap
    PROVE  /\ \A p \in ops \ {o} : p.kind \notin SessionKind /\ p.id = Nil
           /\ Answered <=> o.id # Nil
  BY Kinds DEF AgentInv, Typed, OneSession, Answered

\* The blocks of a login keep the invariant: the next request takes the place of
\* the one that ended, and only a login that has an identity closes the form.
LEMMA LoginStep ==
    ASSUME AgentInv, LoginBlock
    PROVE  AgentInv'
  <1> PICK o \in ops : registered(o) \/ loginStep1(o) \/ loginStep2(o) \/ loginError(o)
    BY DEF LoginBlock
  <1>0. o \in [kind: Kind, n: Nat, id: Nat] /\ o.n \in Nat /\ o.id \in Nat
    BY DEF AgentInv, Typed
  <1>1. ASSUME NEW next \in {"login1", "login2"}, o.kind \in {"register", "login1"},
               ops' = (ops \ {o}) \cup {Op(next, o.n)},
               agentId' \in Nat, agentId' # Nil, saved' = agentId',
               o.id # Nil \/ UNCHANGED agentId,
               UNCHANGED <<running, form, taps, agents, history>>
        PROVE  AgentInv'
    <2>0. UNCHANGED <<overlap, logouts, lost, late>>
      BY <1>1 DEF history
    <2>1. /\ Op(next, o.n) \in [kind: Kind, n: Nat, id: Nat]
          /\ Op(next, o.n).kind = next /\ Op(next, o.n).id = Nil
      BY <1>0, <1>1, OpFields, Kinds
    <2>2. Typed'
      BY <1>1, <2>0, <2>1 DEF AgentInv, Typed
    <2>3. ASSUME ~ overlap PROVE \A p \in ops' : p.kind \in SessionKind => p = Op(next, o.n)
      BY <1>1, <2>3, Others, Kinds
    <2>4. OneSession'
      BY <1>1, <2>0, <2>1, <2>3, Kinds DEF AgentInv, OneSession
    <2>5. ASSUME ~ overlap
          PROVE  agents <= logouts + lost + 1
      <3>1. o.id # Nil \/ agentId # Nil
        BY <1>1
      <3>2. o.id # Nil => agentId = Nil
        BY <1>1, <2>5 DEF AgentInv, Typed, OneSession
      <3>3. Answered <=> o.id # Nil
        BY <1>1, <2>5, Others, Kinds
      <3> QED
        BY <2>5, <3>1, <3>2, <3>3 DEF AgentInv, Typed, OneSession, Counted
    <2>6. Counted'
      BY <1>1, <2>0, <2>5 DEF AgentInv, Typed, OneSession, Counted
    <2> QED
      BY <1>1, <2>2, <2>4, <2>6 DEF AgentInv, FormWhenOut, NilOnlyAfterLogout, isLoggedIn
  <1>2. CASE registered(o)
    BY <1>0, <1>1, <1>2 DEF registered
  <1>3. CASE loginStep1(o)
    <2>1. CASE agentId # Nil
      BY <1>1, <1>3, <2>1 DEF loginStep1, session, AgentInv, Typed
    <2>2. CASE agentId = Nil
      <3>1. overlap
        BY <1>3, <2>2 DEF loginStep1, AgentInv, OneSession
      <3>2. /\ ops' = (ops \ {o}) \cup {Op("login2", o.n)}
            /\ UNCHANGED <<running, agentId, saved, form, taps, agents>>
            /\ UNCHANGED <<overlap, logouts, lost, late>>
        BY <1>3 DEF loginStep1, session, history
      <3>3. /\ Op("login2", o.n) \in [kind: Kind, n: Nat, id: Nat]
            /\ Op("login2", o.n).id = Nil
        BY <1>0, OpFields DEF Kind, Login
      <3>4. Typed'
        BY <3>2, <3>3 DEF AgentInv, Typed
      <3> QED
        BY <3>1, <3>2, <3>4 DEF AgentInv, OneSession, Counted, FormWhenOut,
           NilOnlyAfterLogout
    <2> QED BY <2>1, <2>2
  <1>4. ASSUME o.kind \in Login, ops' = ops \ {o}, form' \in BOOLEAN,
               lost' = lost + (IF o.id # Nil THEN 1 ELSE 0),
               ~ overlap /\ agentId = Nil => form' = form,
               UNCHANGED <<running, agentId, saved, taps, agents, overlap, logouts, late>>
        PROVE  AgentInv'
    <2>1. Typed'
      BY <1>4 DEF AgentInv, Typed
    <2>2. o.kind \in SessionKind
      BY <1>4 DEF SessionKind
    <2>3. OneSession'
      BY <1>4, <2>2, Others DEF AgentInv, OneSession
    <2>4. ASSUME ~ overlap PROVE ~ Answered' /\ (Answered <=> o.id # Nil)
      BY <1>4, <2>2, <2>4, Others DEF Answered
    <2>5. Counted'
      BY <1>4, <2>4 DEF AgentInv, Typed, OneSession, Counted
    <2>6. FormWhenOut'
      BY <1>4 DEF AgentInv, FormWhenOut
    <2>7. NilOnlyAfterLogout'
      BY <1>4 DEF AgentInv, NilOnlyAfterLogout, Pending, isLoggedIn
    <2> QED
      BY <2>1, <2>3, <2>5, <2>6, <2>7 DEF AgentInv
  <1>5. CASE loginStep2(o)
    <2>1. /\ o.kind = "login2" /\ form' = FALSE /\ ops' = ops \ {o}
          /\ UNCHANGED <<running, agentId, saved, taps, agents>>
          /\ UNCHANGED <<overlap, logouts, lost, late>>
      BY <1>5 DEF loginStep2, agentLoggedIn, history
    <2>2. ~ overlap => agentId # Nil
      BY <2>1 DEF AgentInv, OneSession
    <2>3. o.id = Nil
      BY <2>1 DEF AgentInv, Typed
    <2>4. Typed'
      BY <2>1 DEF AgentInv, Typed
    <2>5. OneSession'
      BY <2>1 DEF AgentInv, OneSession
    <2>6. Answered' <=> Answered
      BY <2>1, <2>3 DEF Answered
    <2>7. Counted'
      BY <2>1, <2>6 DEF AgentInv, Counted
    <2>8. FormWhenOut'
      BY <2>1, <2>2 DEF FormWhenOut
    <2>9. NilOnlyAfterLogout'
      BY <2>1 DEF AgentInv, NilOnlyAfterLogout, Pending, isLoggedIn
    <2> QED
      BY <2>4, <2>5, <2>7, <2>8, <2>9 DEF AgentInv
  <1>6. CASE loginError(o)
    BY <1>4, <1>6 DEF loginError, agentLoginFailed, AgentInv, Typed
  <1> QED
    BY <1>2, <1>3, <1>5, <1>6

\* The end of a logout: the identity goes, one more logout makes up for its agent, and
\* a check that is under way is remembered as overtaken.
LEMMA LogoutStep ==
    ASSUME AgentInv, NEW o \in ops, loggedOut(o) \/ logoutError(o)
    PROVE  AgentInv'
  <1>1. /\ o.kind = "logout" /\ o.kind \in SessionKind /\ ops' = ops \ {o}
        /\ UNCHANGED <<running, taps, agents, overlap, lost>>
    BY DEF loggedOut, logoutError, SessionKind, history
  <1>2. o.id = Nil
    BY <1>1 DEF AgentInv, Typed
  <1>3. Answered' <=> Answered
    BY <1>1, <1>2 DEF Answered
  <1>4. Pending(Check)' => Pending(Check)
    BY <1>1 DEF Pending
  <1>5. CASE loggedOut(o)
    <2>1. /\ agentId' = Nil /\ saved' = Nil /\ form' = TRUE
          /\ logouts' = logouts + 1 /\ late' = (late \/ Pending(Check))
      BY <1>5 DEF loggedOut
    <2>2. late' \in BOOLEAN /\ Nil \in Nat
      BY <2>1 DEF AgentInv, Typed, Nil
    <2>3. Typed'
      BY <1>1, <2>1, <2>2 DEF AgentInv, Typed
    <2>4. ASSUME ~ overlap PROVE \A p \in ops' : p.kind \notin SessionKind
      BY <1>1, <2>4, Others
    <2>5. OneSession'
      BY <1>1, <2>1, <2>4, Kinds DEF AgentInv, OneSession
    <2>6. Counted'
      BY <1>1, <1>3, <2>1 DEF AgentInv, Typed, OneSession, Counted
    <2> QED
      BY <1>1, <1>4, <2>1, <2>3, <2>5, <2>6 DEF AgentInv, FormWhenOut, NilOnlyAfterLogout
  <1>6. CASE logoutError(o)
    <2>1. UNCHANGED <<agentId, saved, form, logouts, late>>
      BY <1>6 DEF logoutError, session, history
    <2>2. Typed'
      BY <1>1, <2>1 DEF AgentInv, Typed
    <2>3. OneSession'
      BY <1>1, <2>1 DEF AgentInv, OneSession
    <2>4. Counted'
      BY <1>1, <1>3, <2>1 DEF AgentInv, Counted
    <2>5. FormWhenOut'
      BY <1>1, <2>1 DEF AgentInv, FormWhenOut
    <2>6. NilOnlyAfterLogout'
      BY <1>1, <1>4, <2>1 DEF AgentInv, NilOnlyAfterLogout, isLoggedIn
    <2> QED
      BY <2>2, <2>3, <2>4, <2>5, <2>6 DEF AgentInv
  <1> QED BY <1>5, <1>6

\* A check begins, goes on or ends without touching the session, as long as there is an
\* identity to report it under.
LEMMA CheckStep ==
    ASSUME AgentInv,
           (\E kind \in {"website", "connecting"} : onUpdateTimer(kind)) \/ (\E o \in ops : checked(o))
    PROVE  AgentInv'
  <1>1. ASSUME \A p \in ops' \ ops : /\ p \in [kind: Kind, n: Nat, id: Nat]
                                     /\ p.kind \in Check /\ p.id = Nil,
               \A p \in ops : p.kind \in SessionKind => p \in ops',
               running, isLoggedIn, taps' \in Nat,
               UNCHANGED <<running, session, agents, history>>
        PROVE  AgentInv'
    <2>1. UNCHANGED <<agentId, saved, form, overlap, logouts, lost, late>>
      BY <1>1 DEF session, history
    <2>2. Typed'
      BY <1>1, <2>1 DEF AgentInv, Typed
    <2>3. \A p \in ops' : p.kind \in SessionKind => p \in ops
      BY <1>1, Kinds
    <2>4. OneSession'
      BY <1>1, <2>1, <2>3, Kinds DEF AgentInv, OneSession
    <2>5. Answered' <=> Answered
      <3>1. \A p \in ops \cup ops' : p.id # Nil => p \in ops /\ p.kind \in SessionKind
        BY <1>1, Kinds DEF AgentInv, Typed
      <3> QED BY <1>1, <3>1 DEF Answered
    <2>6. Counted'
      BY <1>1, <2>1, <2>5 DEF AgentInv, Counted
    <2> QED
      BY <1>1, <2>1, <2>2, <2>4, <2>6 DEF AgentInv, FormWhenOut, NilOnlyAfterLogout, isLoggedIn
  <1>2. ASSUME NEW kind \in {"website", "connecting"}, onUpdateTimer(kind) PROVE AgentInv'
    <2>1. kind \in Check /\ kind \in Kind
      BY Kinds DEF Check
    <2>2. taps \in Nat /\ taps + 1 \in Nat
      BY DEF AgentInv, Typed
    <2>3. /\ Op(kind, taps + 1) \in [kind: Kind, n: Nat, id: Nat]
          /\ Op(kind, taps + 1).kind = kind /\ Op(kind, taps + 1).id = Nil
      BY <2>1, <2>2, OpFields
    <2>4. /\ running /\ isLoggedIn /\ taps' = taps + 1 /\ ops' = ops \cup {Op(kind, taps + 1)}
          /\ UNCHANGED <<running, session, agents, history>>
      BY <1>2 DEF onUpdateTimer
    <2> QED
      BY <1>1, <2>1, <2>2, <2>3, <2>4
  <1>3. ASSUME NEW o \in ops, checked(o) PROVE AgentInv'
    <2>1. o.kind \in Check /\ o.n \in Nat /\ running /\ taps \in Nat
      BY <1>3 DEF checked, AgentInv, Typed
    <2>2. CASE isLoggedIn
      <3>1. UNCHANGED <<running, session, taps, agents, history>>
        BY <1>3, <2>2 DEF checked
      <3>2. CASE ops' = ops \ {o}
        BY <1>1, <2>1, <2>2, <3>1, <3>2, Kinds
      <3>3. CASE ops' = (ops \ {o}) \cup {Op("connected", o.n)}
        <4>1. "connected" \in Check /\ "connected" \in Kind
          BY DEF Check, Kind
        <4>2. /\ Op("connected", o.n) \in [kind: Kind, n: Nat, id: Nat]
              /\ Op("connected", o.n).kind = "connected" /\ Op("connected", o.n).id = Nil
          BY <2>1, <4>1, OpFields
        <4> QED BY <1>1, <2>1, <2>2, <3>1, <3>3, <4>1, <4>2, Kinds
      <3> QED BY <1>3, <2>2, <3>2, <3>3 DEF checked
    <2>3. CASE ~ isLoggedIn
      BY <1>3, <2>3, EndStep DEF checked
    <2> QED BY <2>2, <2>3
  <1> QED BY <1>2, <1>3

\* The aggregator registers an agent: the request that asked for it is now the one
\* that carries it.
LEMMA RegisterStep ==
    ASSUME AgentInv, NEW o \in ops, Register(o)
    PROVE  AgentInv'
  <1> DEFINE q == [o EXCEPT !.id = agents + 1]
  <1>1. /\ o.kind = "register" /\ o.id = Nil /\ agents' = agents + 1
        /\ ops' = (ops \ {o}) \cup {q}
        /\ UNCHANGED <<running, agentId, saved, form, taps, overlap, logouts, lost, late>>
    BY DEF Register, session, history
  <1>2. agents \in Nat /\ o \in [kind: Kind, n: Nat, id: Nat]
    BY DEF AgentInv, Typed
  <1>3. q \in [kind: Kind, n: Nat, id: Nat] /\ q.kind = "register" /\ q.id # Nil
    BY <1>1, <1>2 DEF Nil
  <1>4. o.kind \in SessionKind
    BY <1>1, Kinds
  <1> HIDE DEF q
  <1>5. Typed'
    BY <1>1, <1>2, <1>3 DEF AgentInv, Typed
  <1>6. ASSUME ~ overlap PROVE \A p \in ops' : p.kind \in SessionKind => p = q
    BY <1>1, <1>4, <1>6, Others
  <1>7. OneSession'
    BY <1>1, <1>3, <1>6, Kinds DEF AgentInv, OneSession
  <1>8. Counted'
    <2>1. Answered'
      BY <1>1, <1>3 DEF Answered
    <2>2. ASSUME ~ overlap PROVE ~ Answered /\ agentId = Nil
      BY <1>1, <1>4, <2>2, Others DEF AgentInv, OneSession
    <2> QED
      BY <1>1, <1>2, <2>1, <2>2 DEF AgentInv, Typed, OneSession, Counted
  <1>9. Pending(Check)' => Pending(Check)
    BY <1>1, <1>3, Kinds DEF Pending
  <1> QED
    BY <1>1, <1>5, <1>7, <1>8, <1>9 DEF AgentInv, FormWhenOut, NilOnlyAfterLogout, isLoggedIn

\* Every step keeps the invariant.
LEMMA AgentStep == AgentInv /\ [Next]_vars => AgentInv'
  <1> SUFFICES ASSUME AgentInv, [Next]_vars PROVE AgentInv'
    OBVIOUS
  <1>1. CASE UNCHANGED vars
    <2>1. /\ UNCHANGED <<running, agentId, saved, form, ops, taps, agents>>
          /\ UNCHANGED <<overlap, logouts, lost, late>>
      BY <1>1 DEF vars, session, history
    <2> QED
      BY <2>1 DEF AgentInv, Typed, OneSession, Counted, Answered, FormWhenOut,
         NilOnlyAfterLogout, Pending, isLoggedIn
  <1>2. CASE Terminate
    BY <1>2, EndStep DEF Terminate
  <1> QED
    BY <1>1, <1>2, UserStep, LoginStep, LogoutStep, CheckStep, RegisterStep DEF Next

\* The inductive invariant holds in every state of the app: with its user, the
\* aggregator and the system taking their steps in any order.
THEOREM AgentInvariance == Spec => []AgentInv
  BY AgentInit, AgentStep, PTL DEF Spec

\* performLoginIfRequired() and the blocks of the engine: the app of a user who waits
\* for answers shows the login form whenever it has no identity.
THEOREM FormShown == Spec => []FormWhenOut
  <1>1. AgentInv => FormWhenOut
    BY DEF AgentInv
  <1> QED BY <1>1, AgentInvariance, PTL

\* registerAgentWithUsername: such an app has one agent at the aggregator, and another
\* one for each logout and for each answer that did not reach it.
THEOREM OneRegistration == Spec => []OneAgent
  <1>1. AgentInv => OneAgent
    <2> SUFFICES ASSUME AgentInv, ~ overlap PROVE agents <= 1 + logouts + lost
      BY DEF OneAgent
    <2>1. Answered => agentId = Nil
      BY DEF AgentInv, Typed, OneSession, Answered
    <2> QED
      BY <2>1 DEF AgentInv, Typed, OneSession, Counted
  <1> QED BY <1>1, AgentInvariance, PTL

\* sendWebsiteReport and sendServiceReport: such an app is without the identity a
\* report needs only when a logout succeeded while the check was under way.
THEOREM ReportHasIdentity == Spec => []NilOnlyAfterLogout
  <1>1. AgentInv => NilOnlyAfterLogout
    BY DEF AgentInv
  <1> QED BY <1>1, AgentInvariance, PTL
=============================================================================
