------------------------------ MODULE ProxyGet -------------------------------
(***************************************************************************)
(* get() of a node behind a symmetric NAT, through its proxy               *)
(* (libcage/proxy.cpp), composed with the lookups of the DHT that the      *)
(* proxy makes for it (DhtQuery, whose node m_id is the proxy).  The       *)
(* client sends its question over an RDP connection, which the proxy       *)
(* closes once it has read it; when find_value() calls back, the proxy     *)
(* opens another connection, over which the client asks for one value      *)
(* after the other.  timer_get ends a get that takes too long, and         *)
(* timer_proxy of the client sweeps its connections.                       *)
(*                                                                         *)
(* RDP delivers in order what it delivers, tells each end of the end of    *)
(* a connection at most once and may drop what the other end sent last     *)
(* (RdpConn, RdpStream).  A value that does not fit into a segment may     *)
(* arrive in pieces.  m_is_use_rdp is true, as in DhtQuery.                *)
(***************************************************************************)
EXTENDS DhtQuery

CONSTANTS
    Long,       \* the values that are longer than a segment
    Cut         \* a value of which a part was not read

ASSUME ProxyGetAssumption == \A p \in Peers : Cut \notin Stored[p]

VARIABLES
    get,        \* the get of the client
    req,        \* the connection of its question
    rep,        \* the connection of the reply
    forClient,  \* the nonce of the query of the proxy for the client, in a set
    broken      \* the client used an entry of m_getdata that was not there

pvars == <<get, req, rep, forClient, broken>>
allvars == <<vars, pvars>>
-----------------------------------------------------------------------------
\* getdata: whether m_getdata has it; timer: whether its timeout is set; desc: whether
\* its descriptor is not 0.  The rest is history: what func was called with, whether
\* it was called again after that, whether some of the reply was not waited for.
NoGet == [asked |-> FALSE, getdata |-> FALSE, timer |-> FALSE, desc |-> FALSE, vset |-> {},
          calls |-> 0, result |-> FALSE, again |-> FALSE, short |-> FALSE]

\* The two ends of a connection.
NoReq == [client |-> "none", server |-> "none"]
NoRep == [server |-> "none", client |-> "none", result |-> FALSE, left |-> {}, flight |-> <<>>,
          op |-> FALSE]

\* func is called.  Only its first result counts.
Call(g, result) ==
    [g EXCEPT !.calls = @ + 1, !.result = IF g.calls = 0 THEN result ELSE @]

\* The entry is erased from m_getdata and its timer unset.
Over(g) == [g EXCEPT !.getdata = FALSE, !.timer = FALSE]
-----------------------------------------------------------------------------
(* The question. *)

\* get(), which gives up at once while the client is not registered (see Proxy), and
\* get_by_rdp().
proxy_get ==
    /\ ~ get.asked
    /\ \/ /\ get' = Call([get EXCEPT !.asked = TRUE], FALSE)
          /\ UNCHANGED req
       \/ /\ get' = [get EXCEPT !.asked = TRUE, !.getdata = TRUE, !.timer = TRUE, !.desc = TRUE]
          /\ req' = [req EXCEPT !.client = "opening"]
    /\ UNCHANGED <<vars, rep, forClient, broken>>

\* rdp_get_func: CONNECTED.
GetConnected ==
    /\ req.client = "opening"
    /\ req' = [req EXCEPT !.client = "open"]
    /\ UNCHANGED <<vars, get, rep, forClient, broken>>

\* rdp_get_func: RESET, as when the proxy has read the question and closed.
GetReset ==
    /\ req.client # "none" /\ req.server = "closed"
    /\ req' = [req EXCEPT !.client = "none"]
    /\ get' = [get EXCEPT !.desc = FALSE]
    /\ UNCHANGED <<vars, rep, forClient, broken>>

\* rdp_get_func: any other end.  func is called even if the get is over.
GetFails ==
    /\ req.client # "none"
    /\ req' = [req EXCEPT !.client = "none"]
    /\ get' = [Over(Call(get, FALSE)) EXCEPT !.again = ~ get.getdata, !.short = @ \/ get.getdata]
    /\ UNCHANGED <<vars, rep, forClient, broken>>

\* rdp_recv_get_func: ACCEPTED, refused if the client is not registered here (any more).
ReqAccepted ==
    /\ req.client = "open" /\ req.server = "none"
    /\ \E is_registered \in BOOLEAN :
         req' = [req EXCEPT !.server = IF is_registered THEN "accepted" ELSE "closed"]
    /\ UNCHANGED <<vars, get, rep, forClient, broken>>

\* rdp_recv_get_func: READY2READ with the question, by read_hdr() and read_key().
ReadKey(n) ==
    /\ req.server = "accepted"
    /\ m_query[n] = NoQuery
    /\ find_nv(n, "value") \/ find_early(n, "value")
    /\ forClient' = {n}
    /\ rep' = IF m_query'[n].active THEN rep ELSE [NoRep EXCEPT !.server = "opening"]
    /\ req' = [req EXCEPT !.server = "closed"]
    /\ UNCHANGED <<get, broken>>

\* rdp_recv_get_func: the connection ends before that.  (The proxy has no sweep_rdp():
\* timer_proxy calls it only behind a symmetric NAT.)
ReqServerEnds ==
    /\ req.server = "accepted"
    /\ req' = [req EXCEPT !.server = "closed"]
    /\ UNCHANGED <<vars, get, rep, forClient, broken>>

\* timer_get.
timer_get ==
    /\ get.timer
    /\ get' = [Over(Call(get, get.vset # {})) EXCEPT !.short = TRUE]
    /\ req' = IF get.desc THEN [req EXCEPT !.client = "none"] ELSE req
    /\ broken' = (broken \/ ~ get.getdata)
    /\ UNCHANGED <<vars, rep, forClient>>
-----------------------------------------------------------------------------
(* The lookup of the proxy, and the reply. *)

\* get_reply_func, called by a query that is over: send_reply_by_rdp().
Called(n) == n \in forClient /\ m_query'[n].calls > m_query[n].calls

Reply ==
    /\ rep' = IF \E n \in Nonces : Called(n)
              THEN LET q == m_query'[CHOOSE n \in Nonces : Called(n)]
                   IN  [NoRep EXCEPT !.server = "opening", !.result = q.found, !.left = q.vset]
              ELSE rep
    /\ UNCHANGED <<get, req, forClient, broken>>

\* rdp_get_reply_func: CONNECTED, which sends the header.
RepConnected ==
    /\ rep.server = "opening"
    /\ rep' = [rep EXCEPT !.server = "open", !.flight = <<"hdr">>]
    /\ UNCHANGED <<vars, get, req, forClient, broken>>

\* rdp_recv_get_reply_func: ACCEPTED.
RepAccepted ==
    /\ rep.client = "none" /\ rep.server \in {"open", "closed"} /\ rep.flight # <<>>
    /\ rep' = [rep EXCEPT !.client = "RGR_HDR"]
    /\ UNCHANGED <<vars, get, req, forClient, broken>>

\* close_rdp() of the client, for the entry of m_getdata that it finds.
Answered(g) == Over(Call(g, g.vset # {}))

\* read_hdr().
ReadHdr ==
    /\ rep.client = "RGR_HDR" /\ rep.flight # <<>>
    /\ LET go == get.getdata /\ rep.result
       IN  /\ get' = IF get.getdata /\ ~ rep.result THEN Answered(get) ELSE get
           /\ rep' = [rep EXCEPT !.flight = Tail(@), !.op = go,
                                 !.client = IF go THEN "RGR_VAL_HDR" ELSE "closed"]
    /\ UNCHANGED <<vars, req, forClient, broken>>

\* Mutant: the proxy closes with a value left.
Sent_Early(r, v) ==
    [r EXCEPT !.op = FALSE, !.flight = Append(@, v), !.left = @ \ {v},
              !.server = IF Cardinality(r.left) <= 2 THEN "closed" ELSE @]

\* read_op() sends a value and closes after the last.
Sent(r, v) ==
    [r EXCEPT !.op = FALSE, !.flight = Append(@, v), !.left = @ \ {v},
              !.server = IF r.left = {v} THEN "closed" ELSE @]

\* rdp_get_reply_func: READY2READ.
read_op ==
    /\ rep.server = "open" /\ rep.op
    /\ \E v \in rep.left : rep' = Sent(rep, v)
    /\ UNCHANGED <<vars, get, req, forClient, broken>>

\* read_val_hdr() and read_val(), which takes the first piece of a value for the value;
\* what follows it is then read as the next header.
ReadReply ==
    /\ rep.client = "RGR_VAL_HDR" /\ rep.flight # <<>>
    /\ LET v == Head(rep.flight)
       IN  \/ /\ ~ get.getdata
              /\ rep' = [rep EXCEPT !.client = "closed"]
              /\ UNCHANGED get
           \/ /\ get.getdata
              /\ \E w \in {v} \cup (IF v \in Long \/ Cut \in get.vset THEN {Cut} ELSE {}) :
                   get' = [get EXCEPT !.vset = @ \cup {w}]
              /\ rep' = [rep EXCEPT !.flight = Tail(@), !.op = TRUE]
    /\ UNCHANGED <<vars, req, forClient, broken>>

\* Mutant: the get is over without a call.
Ended_Silent(g, mine) == IF g.getdata /\ mine THEN Over(g) ELSE g

\* close_rdp() of the client.  mine: whether the nonce of the connection is that of the get.
Ended(g, mine) == IF g.getdata /\ mine THEN Answered(g) ELSE g

\* rdp_recv_get_reply_func: the connection ends.  Before read_hdr() m_nonce is not
\* initialised.
RepEnds ==
    /\ rep.client \in {"RGR_HDR", "RGR_VAL_HDR"}
    /\ \E mine \in IF rep.client = "RGR_HDR" THEN BOOLEAN ELSE {TRUE} :
         get' = [Ended(get, mine) EXCEPT
                   !.short = @ \/ rep.server # "closed" \/ rep.flight # <<>>]
    /\ rep' = [rep EXCEPT !.client = "closed", !.flight = <<>>]
    /\ UNCHANGED <<vars, req, forClient, broken>>

\* rdp_get_reply_func: the connection ends or is never made.
RepServerEnds ==
    /\ rep.server \in {"opening", "open"}
    /\ rep' = [rep EXCEPT !.server = "closed"]
    /\ get' = [get EXCEPT !.short = @ \/ get.getdata]
    /\ UNCHANGED <<vars, req, forClient, broken>>

\* sweep_rdp() of the client closes every connection of a reply, as it takes the time
\* of its last message for how long ago that was; the test of what find() returned is
\* the wrong way round.
sweep_reply ==
    /\ rep.client \in {"RGR_HDR", "RGR_VAL_HDR"}
    /\ rep' = [rep EXCEPT !.client = "closed", !.flight = <<>>]
    /\ broken' = (broken \/ (rep.client = "RGR_VAL_HDR" /\ ~ get.getdata))
    /\ UNCHANGED <<vars, get, req, forClient>>
-----------------------------------------------------------------------------
ProxyInit ==
    /\ Init
    /\ get = NoGet /\ req = NoReq /\ rep = NoRep
    /\ forClient = {}
    /\ broken = FALSE

ProxyNext ==
    \/ proxy_get \/ GetConnected \/ GetReset \/ GetFails
    \/ ReqAccepted \/ (\E n \in Nonces : ReadKey(n)) \/ ReqServerEnds
    \/ timer_get
    \/ Next /\ Reply
    \/ RepConnected \/ RepAccepted \/ ReadHdr \/ read_op \/ ReadReply
    \/ RepEnds \/ RepServerEnds \/ sweep_reply

ProxySpec == ProxyInit /\ [][ProxyNext]_allvars

\* The timers of the proxy (as in DhtQuery) and of the client are called.
ProxyFairSpec ==
    /\ ProxySpec
    /\ WF_allvars(Timers /\ Reply) /\ WF_allvars(Sweep /\ Reply)
    /\ WF_allvars(timer_get)
-----------------------------------------------------------------------------
(* Properties. *)

\* A get of which func was not called can still end: its entry is in m_getdata with a
\* timer, and only such an entry has one.  Otherwise func was called once; only the
\* connection of the question, when it breaks after the reply, calls it again.
GetAwaited ==
    /\ get.timer <=> get.getdata
    /\ get.calls = (IF ~ get.asked \/ get.getdata THEN 0 ELSE IF get.again THEN 2 ELSE 1)

\* What the client is told are values of the key that one node of the DHT has.  If
\* nothing cut the exchange off they are all that the proxy found, and none only if it
\* found none.  Values longer than a segment are excepted.
ToldExact ==
    LET found == UNION {m_query[n].vset : n \in forClient}
    IN  get.calls > 0 /\ Cut \notin get.vset =>
          /\ get.result => get.vset # {}
          /\ get.vset # {} => \E p \in Peers : get.vset \subseteq Stored[p]
          /\ forClient # {} /\ ~ get.short => get.vset = found /\ (get.result <=> found # {})

\* The client waits as long as it can be answered, and what it is told is right.
GetInv == GetAwaited /\ ToldExact

\* Every get of the client ends, whatever becomes of the proxy and the connections.
GetEnds == get.asked ~> get.calls > 0
=============================================================================
