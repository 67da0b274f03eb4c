------------------------------- MODULE Resolver -------------------------------
(***************************************************************************)
(* The DNS client: __res_msend_rc (src/network/res_msend.c), which sends    *)
(* the queries of one name to all servers and collects the answers, and     *)
(* its callers name_from_dns and name_from_dns_search (lookup_name.c).      *)
(*                                                                         *)
(* Datagrams are lost, duplicated and reordered by the network, and may     *)
(* come from anywhere; the clock runs at any speed.  A packet is reduced to *)
(* its sender, the identifier of the query it answers, its return code      *)
(* ("ok" with records, "empty" without) and whether it says, or recvmsg     *)
(* says, that it is truncated.  Lengths on a TCP connection are scaled: a   *)
(* query is QLEN units long, its answer a header of 2 units and a body.     *)
(***************************************************************************)
EXTENDS Integers, Sequences, FiniteSets

CONSTANTS
    Server, Stranger,   \* addresses
    Plans               \* what is looked up, and how: see PlanOK

Rcodes == {"ok", "empty", "nx", "servfail", "refused"}

\* nqueries, the servers by address family, how many names name_from_dns_search has to try,
\* the timeout and attempts of resolv.conf, a bound on the datagrams that arrive for one
\* name, what servers answer, and whether the caller may be cancelled.
PlanOK(p) ==
    /\ p.nq \in 1..2 /\ p.names \in Nat \ {0}
    /\ p.v4 \cup p.v6 \subseteq Server /\ p.v4 \cap p.v6 = {}
    /\ p.timeout \in Nat /\ p.attempts \in Nat \ {0} /\ p.traffic \in Nat
    /\ p.rcodes \subseteq Rcodes /\ p.cancel \in BOOLEAN

VARIABLES
    plan,                      \* the member of Plans, which does not change
    rpc, name,                 \* where the caller is, and the name it tries
    reach,                     \* the servers that the socket can reach
    alens, answers, next,      \* 0, -1 or the length; the buffers; the first unused buffer
    conn,                      \* pfd[i], qpos[i], apos[i] and the peer
    revents,                   \* the queries whose connections are ready, and for what
    now, t1, servfail_retry,   \* t2 - t0, t1 - t0
    asked, sock, traffic,      \* queries that servers have; datagrams that have arrived
    fds,                       \* descriptors that are open
    broken,                    \* "goto out" was taken
    verdicts                   \* history: what name_from_dns made of each name, and whether all
                               \* queries were answered, one with "no such name", or there was
                               \* an excuse

netVars == <<asked, sock, traffic>>
ansVars == <<alens, answers, next>>
callVars == <<plan, name, reach, verdicts>>
rvars == <<plan, rpc, name, reach, alens, answers, next, conn, revents, now, t1, servfail_retry,
           asked, sock, traffic, fds, broken, verdicts>>

QLEN == 2
ASIZE == 2
Queries == 1..plan.nq
RetryInterval == plan.timeout \div plan.attempts
NoPacket == [from |-> Stranger, id |-> 0, rcode |-> "short", tc |-> FALSE]
Packet(s, i, c, t) == [from |-> s, id |-> i, rcode |-> c, tc |-> t]
NoConn == [events |-> "none", qpos |-> 0, apos |-> 0, alen |-> 0, peer |-> Stranger]

RTypeOK ==
    /\ plan \in Plans /\ PlanOK(plan) /\ name \in 1..plan.names
    /\ rpc \in {"open", "top", "poll", "recv", "tcp", "out", "done"}
    /\ reach \subseteq Server /\ next \in 1..(plan.nq + 1)
    /\ alens \in [1..2 -> -1..(ASIZE + 1)] /\ DOMAIN answers = 1..2
    /\ \A i \in 1..2 : conn[i].events \in {"none", "out", "in"} /\ conn[i].qpos \in 0..QLEN
                       /\ conn[i].apos \in 0..(ASIZE + 2)
    /\ DOMAIN revents \subseteq 1..2 /\ now \in 0..plan.timeout
    /\ servfail_retry \in 0..4 /\ asked \subseteq Server \X (1..2)
    /\ traffic \in 0..plan.traffic /\ fds \subseteq 0..2 /\ broken \in BOOLEAN

RInit ==
    /\ plan \in Plans /\ rpc = "open" /\ name = 1 /\ reach = {}
    /\ alens = [i \in 1..2 |-> 0] /\ answers = [i \in 1..2 |-> NoPacket] /\ next = 1
    /\ conn = [i \in 1..2 |-> NoConn] /\ revents = <<>>
    /\ now = 0 /\ t1 = 0 /\ servfail_retry = 0
    /\ asked = {} /\ sock = <<>> /\ traffic = 0 /\ fds = {} /\ broken = FALSE /\ verdicts = <<>>

-----------------------------------------------------------------------------
(***************************************************************************)
(* The network.  Datagrams are read, and the clock, in the loop that poll   *)
(* is the only wait of: they change only there.                            *)
(***************************************************************************)

\* A server answers a query, which may have reached it twice.
Reply(s, i, c, t, again) ==
    /\ rpc = "poll" /\ traffic < plan.traffic
    /\ <<s, i>> \in asked /\ c \in plan.rcodes
    /\ asked' = IF again THEN asked ELSE asked \ {<<s, i>>}
    /\ sock' = Append(sock, Packet(s, i, c, t)) /\ traffic' = traffic + 1
    /\ UNCHANGED <<rpc, callVars, ansVars, conn, revents, now, t1, servfail_retry, fds, broken>>

\* A datagram that answers nothing arrives.
Stray(p) ==
    /\ rpc = "poll" /\ traffic < plan.traffic
    /\ sock' = Append(sock, p) /\ traffic' = traffic + 1
    /\ UNCHANGED <<rpc, callVars, ansVars, conn, revents, now, t1, servfail_retry, asked, fds, broken>>

Tick ==
    /\ rpc = "poll" /\ now < plan.timeout
    /\ now' = now + 1
    /\ UNCHANGED <<rpc, callVars, ansVars, conn, revents, t1, servfail_retry, netVars, fds, broken>>

-----------------------------------------------------------------------------
(***************************************************************************)
(* __res_msend_rc.                                                         *)
(***************************************************************************)

\* The call for one name is over: its verdict, as name_from_dns sees it.  It looks at the
\* answers in order.
Verdict(al, an) ==
    LET bad == {i \in Queries : al[i] = 0 \/ an[i].rcode \notin {"ok", "empty"}}
        i == CHOOSE k \in bad : \A j \in bad : k <= j
    IN IF bad # {} THEN (CASE al[i] = 0 \/ an[i].rcode = "servfail" -> "again"
                           [] an[i].rcode = "nx" -> "none"
                           [] OTHER -> "fail")
       ELSE IF \E j \in Queries : an[j].rcode = "ok" THEN "found" ELSE "nodata"

\* name_from_dns_search goes on to the next name only when this one does not exist.
Finish(v) ==
    /\ verdicts' = Append(verdicts,
           [verdict |-> v, all |-> \A i \in Queries : alens'[i] > 0,
            nx |-> \E i \in Queries : alens'[i] > 0 /\ answers[i].rcode = "nx",
            excused |-> now >= plan.timeout \/ broken])
    /\ IF v = "none" /\ name < plan.names
       THEN rpc' = "open" /\ name' = name + 1
       ELSE rpc' = "done" /\ name' = name

\* The sockets: one for all servers.  Without IPv6 in the system the code means to give up
\* only if all servers need it, but looks at an array element past the last server.
Open ==
    /\ rpc = "open"
    /\ alens' = [i \in 1..2 |-> 0] /\ answers' = [i \in 1..2 |-> NoPacket] /\ next' = 1
    /\ conn' = [i \in 1..2 |-> NoConn] /\ revents' = <<>>
    /\ now' = 0 /\ t1' = 0 - RetryInterval /\ servfail_retry' = 0
    /\ asked' = {} /\ sock' = <<>> /\ traffic' = 0 /\ broken' = FALSE
    /\ \/ rpc' = "top" /\ reach' = plan.v4 \cup plan.v6 /\ fds' = {0}
       \/ rpc' = "top" /\ plan.v6 # {} /\ reach' = plan.v4 /\ fds' = {0}
       \/ rpc' = "done" /\ reach' = {} /\ fds' = {}
    /\ UNCHANGED <<plan, name, verdicts>>

\* The head of the loop: everything is answered, the time is over, or queries are (re)sent.
LoopTop ==
    /\ rpc = "top"
    /\ IF now >= plan.timeout \/ \A i \in Queries : alens[i] > 0
       THEN rpc' = "out" /\ UNCHANGED <<asked, t1, servfail_retry>>
       ELSE /\ rpc' = "poll"
            /\ IF now - t1 >= RetryInterval
               THEN /\ asked' = asked \cup (reach \X {i \in Queries : alens[i] = 0})
                    /\ t1' = now /\ servfail_retry' = 2 * plan.nq
               ELSE UNCHANGED <<asked, t1, servfail_retry>>
    /\ UNCHANGED <<callVars, ansVars, conn, revents, now, sock, traffic, fds, broken>>

Connected == {i \in Queries : conn[i].events # "none"}

\* poll: nothing until the next retry, or interrupted, or some descriptors are ready.
Poll ==
    /\ rpc = "poll"
    /\ \/ rpc' = "top" /\ UNCHANGED revents
       \/ \E R \in SUBSET Connected :
            /\ R # {} \/ (sock # <<>> /\ next <= plan.nq)
            /\ rpc' = "recv" /\ revents' = [i \in R |-> conn[i].events]
    /\ UNCHANGED <<callVars, ansVars, conn, now, t1, servfail_retry, netVars, fds, broken>>

\* Where a truncated answer makes a TCP connection: the query is sent with it, in part or
\* not yet, or there is no connection.
start_tcp(i, s) ==
    \/ \E n \in 0..QLEN :
         /\ conn' = [conn EXCEPT ![i] = [events |-> IF n = QLEN THEN "in" ELSE "out", qpos |-> n,
                                         apos |-> 0, alen |-> 0, peer |-> s]]
         /\ fds' = fds \cup {i}
    \/ UNCHANGED <<conn, fds>>

\* The first buffer whose query has no answer.
FirstFree(al) ==
    CHOOSE n \in 1..(plan.nq + 1) :
        n >= next /\ (n > plan.nq \/ al[n] = 0) /\ \A k \in next..(n - 1) : al[k] # 0

\* Mutant: the sender and the answers there are already are not looked at.
RecvTrusting ==
    LET p == Head(sock)
        ids == {i \in next..plan.nq : p.id = i}
        i == CHOOSE k \in ids : TRUE
        al == [alens EXCEPT ![i] = IF p.tc THEN -1 ELSE ASIZE]
        buf == [answers EXCEPT ![next] = NoPacket]
        dropped == p.rcode = "short" \/ ids = {}
        taken == ~dropped /\ p.rcode \in {"ok", "empty", "nx"}
    IN /\ rpc = "recv" /\ sock # <<>> /\ next <= plan.nq
       /\ sock' = Tail(sock)
       /\ UNCHANGED <<servfail_retry, asked>>
       /\ IF taken
          THEN /\ alens' = al /\ next' = FirstFree([alens EXCEPT ![i] = ASIZE])
               /\ answers' = [buf EXCEPT ![i] = p]
               /\ IF p.tc THEN start_tcp(i, p.from) ELSE UNCHANGED <<conn, fds>>
          ELSE answers' = buf /\ UNCHANGED <<alens, next, conn, fds>>
       /\ UNCHANGED <<rpc, callVars, revents, now, t1, traffic, broken>>

\* One datagram goes into the first free buffer, and stays there if it answers that query
\* (what is left in the buffer otherwise does not matter).
Recv ==
    LET p == Head(sock)
        ids == {i \in next..plan.nq : p.id = i}
        i == CHOOSE k \in ids : TRUE
        al == [alens EXCEPT ![i] = IF p.tc THEN -1 ELSE ASIZE]
        buf == [answers EXCEPT ![next] = NoPacket]
        dropped == p.rcode = "short" \/ p.from \notin reach \/ ids = {} \/ (ids # {} /\ alens[i] # 0)
        taken == ~dropped /\ p.rcode \in {"ok", "empty", "nx"}
        again == ~dropped /\ p.rcode = "servfail" /\ servfail_retry > 0
    IN /\ rpc = "recv" /\ sock # <<>> /\ next <= plan.nq
       /\ sock' = Tail(sock)
       /\ servfail_retry' = IF again THEN servfail_retry - 1 ELSE servfail_retry
       /\ asked' = IF again THEN asked \cup {<<p.from, i>>} ELSE asked
       /\ IF taken
          THEN /\ alens' = al /\ next' = FirstFree([alens EXCEPT ![i] = ASIZE])
               /\ answers' = [buf EXCEPT ![i] = p]
               /\ IF p.tc THEN start_tcp(i, p.from) ELSE UNCHANGED <<conn, fds>>
          ELSE answers' = buf /\ UNCHANGED <<alens, next, conn, fds>>
       /\ UNCHANGED <<rpc, callVars, revents, now, t1, traffic, broken>>

\* No more datagrams, or no more buffers.
RecvEnd ==
    /\ rpc = "recv" /\ (sock = <<>> \/ next > plan.nq)
    /\ rpc' = "tcp"
    /\ UNCHANGED <<callVars, ansVars, conn, revents, now, t1, servfail_retry, netVars, fds, broken>>

Ready(ev) == {i \in DOMAIN revents : revents[i] = ev}
Handled(i) == [j \in DOMAIN revents \ {i} |-> revents[j]]
Lowest(S) == CHOOSE i \in S : \A j \in S : i <= j

\* Any error on a connection ends the whole call.
Break(i) ==
    /\ rpc' = "out" /\ broken' = TRUE
    /\ UNCHANGED <<callVars, ansVars, conn, revents, now, t1, servfail_retry, netVars, fds>>

\* The rest of the query, or a part of it, is sent.
TcpOut ==
    LET i == Lowest(Ready("out")) IN
    /\ rpc = "tcp" /\ Ready("out") # {}
    /\ \/ Break(i)
       \/ /\ \E n \in (conn[i].qpos + 1)..QLEN :
               conn' = [conn EXCEPT ![i].qpos = n,
                                    ![i].events = IF n = QLEN THEN "in" ELSE "out"]
          /\ revents' = Handled(i)
          /\ UNCHANGED <<rpc, callVars, ansVars, now, t1, servfail_retry, netVars, fds, broken>>

\* Mutant: the connection stays open when its answer is complete.
TcpInLeak ==
    LET i == Lowest(Ready("in"))
        c == conn[i]
    IN
    /\ rpc = "tcp" /\ Ready("out") = {} /\ Ready("in") # {}
    /\ \/ Break(i)
       \/ \E n \in (c.apos + 1)..(ASIZE + 2), len \in {2, ASIZE + 1}, rc \in {"ok", "empty", "nx"} :
            /\ n <= len + 2
            /\ IF n < len + 2 /\ n < ASIZE + 2
               THEN conn' = [conn EXCEPT ![i].apos = n] /\ UNCHANGED <<answers, alens, fds>>
               ELSE /\ answers' = [answers EXCEPT ![i] = Packet(c.peer, i, rc, FALSE)]
                    /\ alens' = [alens EXCEPT ![i] = len]
                    /\ conn' = [conn EXCEPT ![i] = NoConn] /\ fds' = fds
            /\ revents' = Handled(i)
            /\ UNCHANGED <<rpc, callVars, next, now, t1, servfail_retry, netVars, broken>>

\* A part of the answer comes, or the rest of it; what does not fit the buffer is not read.
\* A connection that ends, a length that is too small and a bad return code are errors.
TcpIn ==
    LET i == Lowest(Ready("in"))
        c == conn[i]
    IN
    /\ rpc = "tcp" /\ Ready("out") = {} /\ Ready("in") # {}
    /\ \/ Break(i)
       \/ \E n \in (c.apos + 1)..(ASIZE + 2), len \in {2, ASIZE + 1}, rc \in {"ok", "empty", "nx"} :
            /\ n <= len + 2 /\ (c.alen # 0 => len = c.alen)
            /\ IF n < len + 2 /\ n < ASIZE + 2
               THEN /\ conn' = [conn EXCEPT ![i].apos = n, ![i].alen = IF n < 2 THEN 0 ELSE len]
                    /\ UNCHANGED <<answers, alens, fds>>
               ELSE /\ answers' = [answers EXCEPT ![i] = Packet(c.peer, i, rc, FALSE)]
                    /\ alens' = [alens EXCEPT ![i] = len]
                    /\ conn' = [conn EXCEPT ![i] = NoConn] /\ fds' = fds \ {i}
            /\ revents' = Handled(i)
            /\ UNCHANGED <<rpc, callVars, next, now, t1, servfail_retry, netVars, broken>>

LoopEnd ==
    /\ rpc = "tcp" /\ DOMAIN revents = {}
    /\ rpc' = "top"
    /\ UNCHANGED <<callVars, ansVars, conn, revents, now, t1, servfail_retry, netVars, fds, broken>>

\* The descriptors in pfd are closed; unfinished answers are no answers.
cleanup == fds \ ({0} \cup Connected)

Out ==
    /\ rpc = "out"
    /\ fds' = cleanup
    /\ alens' = [i \in 1..2 |-> IF alens[i] < 0 THEN 0 ELSE alens[i]]
    /\ Finish(Verdict(alens', answers))
    /\ UNCHANGED <<plan, reach, answers, next, conn, revents, now, t1, servfail_retry, netVars, broken>>

\* The thread is cancelled in poll, recvmsg or sendmsg.
CancelCall ==
    /\ plan.cancel /\ rpc \in {"poll", "recv", "tcp"}
    /\ rpc' = "done" /\ fds' = cleanup
    /\ UNCHANGED <<callVars, ansVars, conn, revents, now, t1, servfail_retry, netVars, broken>>

-----------------------------------------------------------------------------

Strays == {NoPacket} \cup {Packet(Stranger, i, "ok", FALSE) : i \in 1..2}

Client == Open \/ LoopTop \/ Poll \/ Recv \/ RecvEnd \/ TcpOut \/ TcpIn \/ LoopEnd \/ Out

RNext ==
    \/ Client \/ CancelCall \/ Tick
    \/ \E s \in Server, i \in 1..2, c \in Rcodes, t, again \in BOOLEAN : Reply(s, i, c, t, again)
    \/ \E p \in Strays : Stray(p)

-----------------------------------------------------------------------------
(***************************************************************************)
(* Properties.                                                             *)
(***************************************************************************)

\* What counts as an answer to query i: from a server that was asked, for this query, whole.
Answers(i, p) ==
    p.from \in reach /\ p.id = i /\ p.rcode \in {"ok", "empty", "nx"} /\ ~p.tc

\* Whatever order the datagrams come in, the buffer of an answered query holds an answer to
\* that query; no descriptor is lost or stays open after the call, cancelled or not; the
\* caller is told that a name does not exist, or has no addresses, only if a server said so
\* for that name, and to try again only if time has run out or a connection has failed.
AnswersSound ==
    /\ RTypeOK
    /\ rpc # "done" => \A i \in Queries : alens[i] > 0 => Answers(i, answers[i])
    /\ fds = (IF rpc \in {"open", "done"} THEN {} ELSE {0} \cup Connected)
    /\ \A k \in DOMAIN verdicts :
          LET v == verdicts[k] IN
          /\ v.verdict = "none" => v.nx
          /\ v.verdict \in {"found", "nodata"} => v.all
          /\ v.verdict = "again" => v.excused
          /\ k < Len(verdicts) => v.verdict = "none"

\* An answer that was accepted is not touched again during the call.
AnswerKept ==
    rpc # "open" => \A i \in Queries : alens[i] > 0 => answers'[i] = answers[i] /\ alens'[i] = alens[i]

Over == rpc = "done"
=============================================================================
