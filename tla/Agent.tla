-------------------------------- MODULE Agent --------------------------------
(***************************************************************************)
(* The session of the monitoring agent with its aggregator: the engine     *)
(* that registers, logs in and logs out (ICMAggregatorEngine.mm), the      *)
(* login form of the root view (ICMRootViewController.m) and the periodic  *)
(* checks of websites and services, whose results are reported under the   *)
(* identity of the agent (ICMUpdater.m).                                   *)
(*                                                                         *)
(* Everything runs on the main queue.  A request is enqueued and its       *)
(* completion or error block is called later, whatever happened meanwhile; *)
(* the user may tap again before that, and the system may end the app.     *)
(* The identity, agentId, is kept in NSUserDefaults (saved).  A report or  *)
(* a logout without an identity hands a null pointer to a protobuf setter: *)
(* the app crashes.                                                        *)
(*                                                                         *)
(* The aggregator is external: it may answer or not, and it may register   *)
(* an agent whose app never hears of it.  What a check finds, and requests *)
(* whose answers are only logged (checkNewTests, suggestions, reports once *)
(* they are sent), are left out.                                           *)
(***************************************************************************)
EXTENDS Naturals, FiniteSets

CONSTANT MaxTap     \* how often the user taps or a timer starts a check (a bound)

ASSUME AgentAssumption == MaxTap \in Nat

Nil == 0

VARIABLES
    running,    \* whether the app runs
    agentId,    \* Nil or the number the aggregator gave
    saved,      \* the same in NSUserDefaults
    form,       \* whether the login form is presented
    ops,        \* the requests and sockets whose blocks are still to be called
    taps,       \* how many of them the user or a timer started
    agents,     \* how many agents the aggregator registered
    attempt,    \* whether a login was asked for and its end was not told
    overlap,    \* history: a button was tapped before the last tap was answered
    logouts,    \* history: how many logouts succeeded
    lost,       \* history: how many agents were registered for no app
    late        \* history: a logout succeeded while a check was under way

session == <<agentId, saved, form>>
history == <<overlap, logouts, lost, late>>
vars == <<running, session, ops, taps, agents, attempt, history>>

Login == {"register", "login1", "login2"}
Check == {"website", "connecting", "connected"}
Kind == Login \cup Check \cup {"logout"}

\* A request: what it is, the tap it comes from, and the number of the agent that
\* the aggregator registered for it.
Op(kind, n) == [kind |-> kind, n |-> n, id |-> Nil]
Pending(kinds) == \E o \in ops : o.kind \in kinds

isLoggedIn == agentId # Nil
-----------------------------------------------------------------------------
(* The root view. *)

performLoginIfRequired == form' = (form \/ ~ isLoggedIn)

willEnterForeground ==
    /\ running
    /\ performLoginIfRequired
    /\ UNCHANGED <<running, agentId, saved, ops, taps, agents, attempt, history>>

\* doneBtnPressed of the form, with logInWithUsername: an app that has an
\* identity does not register again.
logInWithUsername ==
    /\ running /\ form /\ taps < MaxTap
    /\ taps' = taps + 1
    /\ ops' = ops \cup {Op(IF agentId = Nil THEN "register" ELSE "login1", taps')}
    /\ attempt' = TRUE
    /\ overlap' = (overlap \/ Pending(Login \cup {"logout"}))
    /\ UNCHANGED <<running, session, agents, logouts, lost, late>>

\* agentLoggedInWithError, without and with an error.
agentLoggedIn == attempt' = FALSE /\ form' = FALSE
agentLoginFailed == attempt' = FALSE /\ UNCHANGED form
-----------------------------------------------------------------------------
(* The engine: what the blocks do. *)

\* Mutant: the identity is not kept.
registered_NotSaved(o) ==
    /\ o.kind = "register" /\ o.id # Nil
    /\ agentId' = o.id
    /\ ops' = (ops \ {o}) \cup {Op("login1", o.n)}
    /\ UNCHANGED <<running, saved, form, taps, agents, attempt, history>>

\* registerAgentWithUsername, on completion.
registered(o) ==
    /\ o.kind = "register" /\ o.id # Nil
    /\ agentId' = o.id
    /\ saved' = o.id
    /\ ops' = (ops \ {o}) \cup {Op("login1", o.n)}
    /\ UNCHANGED <<running, form, taps, agents, attempt, history>>

\* loginStep1, on completion: loginStep2.
loginStep1(o) ==
    /\ o.kind = "login1"
    /\ ops' = (ops \ {o}) \cup {Op("login2", o.n)}
    /\ UNCHANGED <<running, session, taps, agents, attempt, history>>

\* loginStep2, on completion.
loginStep2(o) ==
    /\ o.kind = "login2"
    /\ agentLoggedIn
    /\ ops' = ops \ {o}
    /\ UNCHANGED <<running, agentId, saved, taps, agents, history>>

\* Mutant: the delegate does not hear of a login that fails.
loginError_Silent(o) ==
    /\ o.kind \in Login
    /\ ops' = ops \ {o}
    /\ lost' = lost + (IF o.id # Nil THEN 1 ELSE 0)
    /\ UNCHANGED <<running, session, attempt, taps, agents, overlap, logouts, late>>

\* The error blocks of these three.
loginError(o) ==
    /\ o.kind \in Login
    /\ agentLoginFailed
    /\ ops' = ops \ {o}
    /\ lost' = lost + (IF o.id # Nil THEN 1 ELSE 0)
    /\ UNCHANGED <<running, agentId, saved, taps, agents, overlap, logouts, late>>

\* The app ends, by itself or by the system, and forgets what it was waiting for.
End ==
    /\ running' = FALSE
    /\ form' = FALSE
    /\ ops' = {}
    /\ attempt' = FALSE
    /\ lost' = lost + Cardinality({o \in ops : o.id # Nil})
    /\ late' = FALSE
    /\ UNCHANGED <<agentId, saved, taps, agents, overlap, logouts>>

\* logoutBtnTapped with logoutAgent: the settings are behind the form.
logoutAgent ==
    /\ running /\ ~ form /\ taps < MaxTap
    /\ \/ /\ agentId # Nil
          /\ taps' = taps + 1
          /\ ops' = ops \cup {Op("logout", taps')}
          /\ overlap' = (overlap \/ Pending(Login \cup {"logout"}))
          /\ UNCHANGED <<running, session, agents, attempt, logouts, lost, late>>
       \/ agentId = Nil /\ End

\* Mutant: the form is presented the next time the app comes to the foreground.
loggedOut_NoForm(o) ==
    /\ o.kind = "logout"
    /\ agentId' = Nil
    /\ saved' = Nil
    /\ ops' = ops \ {o}
    /\ logouts' = logouts + 1
    /\ late' = (late \/ Pending(Check))
    /\ UNCHANGED <<running, form, taps, agents, attempt, overlap, lost>>

\* logoutAgent, on completion, with agentLoggedOutWithError.
loggedOut(o) ==
    /\ o.kind = "logout"
    /\ agentId' = Nil
    /\ saved' = Nil
    /\ form' = TRUE
    /\ ops' = ops \ {o}
    /\ logouts' = logouts + 1
    /\ late' = (late \/ Pending(Check))
    /\ UNCHANGED <<running, taps, agents, attempt, overlap, lost>>

logoutError(o) ==
    /\ o.kind = "logout"
    /\ ops' = ops \ {o}
    /\ UNCHANGED <<running, session, taps, agents, attempt, history>>
-----------------------------------------------------------------------------
(* The updater. *)

\* Mutant: whether there is an identity is not asked.
onUpdateTimer_NoGuard(kind) ==
    /\ running /\ taps < MaxTap
    /\ taps' = taps + 1
    /\ ops' = ops \cup {Op(kind, taps')}
    /\ UNCHANGED <<running, session, agents, attempt, history>>

\* onUpdateWebsiteTimer and onUpdateServiceTimer: without a connection, or
\* without an identity, nothing is checked.
onUpdateTimer(kind) ==
    /\ running /\ isLoggedIn /\ taps < MaxTap
    /\ taps' = taps + 1
    /\ ops' = ops \cup {Op(kind, taps')}
    /\ UNCHANGED <<running, session, agents, attempt, history>>

\* The blocks of a website's check, and the callbacks of a service's socket, which
\* is told of a connection and then of its end, or of the end only: the result is
\* saved and sendWebsiteReport or sendServiceReport called.
checked(o) ==
    /\ o.kind \in Check
    /\ \/ /\ isLoggedIn
          /\ \/ ops' = ops \ {o}
             \/ /\ o.kind = "connecting"
                /\ ops' = (ops \ {o}) \cup {Op("connected", o.n)}
          /\ UNCHANGED <<running, session, taps, agents, attempt, history>>
       \/ ~ isLoggedIn /\ End
-----------------------------------------------------------------------------
(* The aggregator and the system. *)

Register(o) ==
    /\ o.kind = "register" /\ o.id = Nil
    /\ agents' = agents + 1
    /\ ops' = (ops \ {o}) \cup {[o EXCEPT !.id = agents']}
    /\ UNCHANGED <<running, session, taps, attempt, history>>

Terminate ==
    /\ running
    /\ End

\* init of the engine, and viewDidAppear of the root view.
Launch ==
    /\ ~ running
    /\ running' = TRUE
    /\ agentId' = saved
    /\ form' = (saved = Nil)
    /\ UNCHANGED <<saved, ops, taps, agents, attempt, history>>
-----------------------------------------------------------------------------
Init ==
    /\ running = FALSE
    /\ agentId = Nil
    /\ saved = Nil
    /\ form = FALSE
    /\ ops = {}
    /\ taps = 0
    /\ agents = 0
    /\ attempt = FALSE
    /\ overlap = FALSE
    /\ logouts = 0
    /\ lost = 0
    /\ late = FALSE

LoginBlock == \E o \in ops : registered(o) \/ loginStep1(o) \/ loginStep2(o) \/ loginError(o)

Next ==
    \/ Launch
    \/ Terminate
    \/ willEnterForeground
    \/ logInWithUsername
    \/ LoginBlock
    \/ logoutAgent
    \/ \E o \in ops : loggedOut(o) \/ logoutError(o)
    \/ \E kind \in {"website", "connecting"} : onUpdateTimer(kind)
    \/ \E o \in ops : checked(o)
    \/ \E o \in ops : Register(o)

Spec == Init /\ [][Next]_vars

\* A request ends, by an answer or by the timeout of the library that sent it.
FairSpec == Spec /\ WF_vars(LoginBlock)
-----------------------------------------------------------------------------
(* Properties. *)

TypeOK ==
    /\ running \in BOOLEAN
    /\ agentId \in 0..agents /\ saved \in 0..agents
    /\ form \in BOOLEAN
    /\ ops \subseteq [kind: Kind, n: 1..taps, id: 0..agents]
    /\ taps \in 0..MaxTap
    /\ agents \in 0..MaxTap
    /\ attempt \in BOOLEAN
    /\ logouts \in 0..MaxTap
    /\ lost \in 0..agents
    /\ overlap \in BOOLEAN /\ late \in BOOLEAN

\* As long as the user waits for an answer before the next tap, an app without an
\* identity shows the login form: nothing is left that only an agent may do.
FormWhenOut == running /\ ~ overlap /\ agentId = Nil => form

\* The app registers once, and again only after a logout or when the answer of the
\* aggregator was lost: a login that fails, or an app that ends between the two,
\* does not cost another agent.
OneAgent == ~ overlap => agents <= 1 + logouts + lost

\* A check whose report will crash the app, for want of an identity, is one that
\* a logout overtook: no other way leads there.
NilOnlyAfterLogout == running /\ ~ overlap /\ ~ isLoggedIn /\ Pending(Check) => late

\* Every login the user asks for is answered, by closing the form or by an alert.
LoginAnswered == attempt ~> ~ attempt
=============================================================================
