-------------------------------- MODULE Rpc ---------------------------------
(***************************************************************************)
(* The templates of rpc/rpc.h: rpcc::call and call_m, which put a call's   *)
(* arguments into a request and take the result from the reply, and        *)
(* rpcs::reg, whose handlers take the arguments out, call the method and   *)
(* put its result into the reply; with the handlers that extent_smain.cc   *)
(* registers.                                                              *)
(*                                                                         *)
(* What lies between the two is in the library librpc.a: call1 numbers the *)
(* request, sends it and waits; dispatch finds the handler; got_pdu gives  *)
(* a reply to the call with its number.  Calls are made by several threads *)
(* at once, messages are lost or overtake each other, and a call that has  *)
(* waited long enough fails.                                               *)
(*                                                                         *)
(* The client is one made with retrans = false: its requests carry client  *)
(* nonce 0, which dispatch takes for new, and each is sent once.  (For any *)
(* other nonce checkduplicate_and_update, as disassembled from librpc.a,   *)
(* only takes its lock and returns FORGOTTEN: every request is refused.)   *)
(*                                                                         *)
(* The types of a call are those of the variables at the call site.        *)
(* Nothing compares them with the types of the method.                     *)
(***************************************************************************)
EXTENDS Marshall, FiniteSets

CONSTANTS
    Calls,          \* the calls in progress; a call is its number, xid
    Requests,       \* what may be called: procedure, types, values
    Results         \* for each type, the results a method may return

VARIABLES
    calls,          \* the state of each call
    net,            \* the messages under way
    executed,       \* the methods run for each call, with arguments and result
    status          \* "aborted" when VERIFY(0) has failed in the client

rpcVars == <<calls, net, executed, status>>

timeout_failure == -1
unmarshal_args_failure == -2

\* The handlers of extent_smain.cc, and two with the container types.
procs_ ==
    [get     |-> [num |-> 2, args |-> <<"ull">>, ret |-> "string"],
     getattr |-> [num |-> 3, args |-> <<"ull">>, ret |-> "attr"],
     put     |-> [num |-> 1, args |-> <<"ull", "string">>, ret |-> "int"],
     remove  |-> [num |-> 4, args |-> <<"ull">>, ret |-> "int"],
     list    |-> [num |-> 5, args |-> <<"vector", "map">>, ret |-> "vector"],
     table   |-> [num |-> 6, args |-> <<"int">>, ret |-> "map"]]

Procs == DOMAIN procs_

\* What a method may return: OK, or another status of its own.
Codes == {0, 3}

\* Calls are numbered with ints.  What a caller or a method gives has the type it
\* is declared with, and is marshalled into bytes.
ASSUME CallAssumption ==
    /\ Calls \subseteq Words
    /\ \A q \in Requests :
          /\ q.proc \in Procs
          /\ q.args = [k \in DOMAIN q.types |-> q.args[k]]
          /\ \A k \in DOMAIN q.types : IsValue(q.types[k], q.args[k])
          /\ PutAll(q.types, q.args) \in Seq(Byte)
    /\ \A p \in Procs : \A r \in Results[procs_[p].ret] : IsValue(procs_[p].ret, r)

NoCall == [st |-> "new"]

Init ==
    /\ calls = [x \in Calls |-> NoCall]
    /\ net = {}
    /\ executed = [x \in Calls |-> << >>]
    /\ status = "up"

-----------------------------------------------------------------------------
(* The client. *)

\* rpcc::call for any number of arguments, up to the wait in call1.
call(x, q) ==
    /\ status = "up"
    /\ calls[x] = NoCall
    /\ LET header == <<x, procs_[q.proc].num, 0, 0, 0>>
       IN  net' = net \cup {[to |-> "server",
                             buf |-> pack_header(Buffer(PutAll(q.types, q.args)), header)]}
    /\ calls' = [calls EXCEPT ![x] = [st |-> "waiting", q |-> q, r |-> q.r, intret |-> 0]]
    /\ UNCHANGED <<executed, status>>

\* The call c when call returns intret, with r in the caller's variable.
Done(c, intret, r) == [st |-> "done", q |-> c.q, r |-> r, intret |-> intret]

\* Mutant: the result is read before the status is looked at.
CallMReadsFirst(x, intret, u) ==
    LET got == Get(calls[x].q.ret, u, calls[x].q.r)
    IN  /\ calls' = [calls EXCEPT ![x] = Done(@, intret, got.v)]
        /\ status' = IF intret < 0 \/ okdone(got.u) THEN "up" ELSE "aborted"

\* Mutant: the status is not looked at.
CallMUnchecked(x, intret, u) ==
    LET got == Get(calls[x].q.ret, u, calls[x].q.r)
    IN  /\ calls' = [calls EXCEPT ![x] = Done(@, intret, @.r)]
        /\ status' = IF okdone(got.u) THEN "up" ELSE "aborted"

\* The rest of call_m, when call1 has returned intret and the reply u.
call_m(x, intret, u) ==
    LET got == Get(calls[x].q.ret, u, calls[x].q.r)
    IN  IF intret < 0
        THEN /\ calls' = [calls EXCEPT ![x] = Done(@, intret, @.r)]
             /\ UNCHANGED status
        ELSE /\ calls' = [calls EXCEPT ![x] = Done(@, intret, got.v)]
             /\ status' = IF okdone(got.u) THEN "up" ELSE "aborted"

\* A return value is written into the header as an int, also one below 0.
Signed(n) == IF 2 * n >= WORD THEN n - WORD ELSE n

\* got_pdu: the reply with the number of a call that waits ends it.
got_pdu(m) ==
    /\ status = "up"
    /\ m \in net /\ m.to = "client"
    /\ net' = net \ {m}
    /\ LET h == unpack_header(m.buf, 2)
           x == h[1]
       IN  IF calls[x].st = "waiting"
           THEN call_m(x, Signed(h[2]), Unmarshall(m.buf, RPC_HEADER_SZ))
           ELSE UNCHANGED <<calls, status>>
    /\ UNCHANGED executed

timeout(x) ==
    /\ status = "up"
    /\ calls[x].st = "waiting"
    /\ call_m(x, timeout_failure, NoReply)
    /\ UNCHANGED <<net, executed>>

-----------------------------------------------------------------------------
(* The server. *)

\* Mutant: the handler checks that enough bytes came, not that none are left.
ArgsEnough(u) == u.ok

ArgsAccepted(u) == okdone(u)

Reply(h, ret, content) ==
    [to |-> "client",
     buf |-> pack_header(Buffer(content), <<h[1], ret % WORD>>)]

\* h1::fn of rpcs::reg, for any number of arguments, called by dispatch.
fn(m) ==
    /\ m \in net /\ m.to = "server"
    /\ LET h == unpack_header(m.buf, 5)
           proc == CHOOSE p \in Procs : procs_[p].num = h[2]
           args == GetAll(procs_[proc].args, Unmarshall(m.buf, RPC_HEADER_SZ))
       IN  IF ArgsAccepted(args.u)
           THEN \E r \in Results[procs_[proc].ret], b \in Codes :
                   /\ executed' = [executed EXCEPT ![h[1]] =
                                      Append(@, [args |-> args.v, r |-> r, b |-> b])]
                   /\ net' = (net \ {m}) \cup {Reply(h, b, Put(procs_[proc].ret, r))}
           ELSE /\ net' = (net \ {m}) \cup {Reply(h, unmarshal_args_failure, << >>)}
                /\ UNCHANGED executed
    /\ UNCHANGED <<calls, status>>

lose(m) == net' = net \ {m} /\ UNCHANGED <<calls, executed, status>>

Next ==
    \/ \E x \in Calls : timeout(x) \/ \E q \in Requests : call(x, q)
    \/ \E m \in net : got_pdu(m) \/ fn(m) \/ lose(m)

Spec == Init /\ [][Next]_rpcVars

-----------------------------------------------------------------------------
(* Properties. *)

\* Calls, messages with room for a header, and executions of calls.
TypeOK ==
    /\ \A x \in Calls : calls[x].st \in {"new", "waiting", "done"}
    /\ \A m \in net : Len(m.buf) >= RPC_HEADER_SZ
    /\ \A x \in Calls : calls[x].st = "new" => executed[x] = << >>
    /\ status \in {"up", "aborted"}

\* A method is called with what the caller gave, whatever else is under way: the
\* header is not written over the arguments, and arguments that do not use up
\* the bytes of the request are not accepted.  Where the call site has other
\* types than the method, the method's arguments are at least the same bytes.
\* (Not so for a map, which drops all pairs but one that have the same key.)
MethodGetsArguments ==
    \A x \in Calls : \A k \in DOMAIN executed[x] :
        LET q == calls[x].q
            types == procs_[q.proc].args
            args == executed[x][k].args
        IN  /\ q.types = types => args = q.args
            /\ (\A j \in DOMAIN types : types[j] # "map") => PutAll(types, args) = PutAll(q.types, q.args)

\* A call that does not fail returns the status and the result of the method as
\* it ran for this very call, and not for another one.  A vector that was not
\* empty keeps its elements in front.
ResultIsOfThisCall ==
    \A x \in Calls :
        calls[x].st = "done" /\ calls[x].intret >= 0 /\ status = "up" =>
            \E k \in DOMAIN executed[x] :
                LET q == calls[x].q
                    r == executed[x][k].r
                IN  /\ executed[x][k].b = calls[x].intret
                    /\ q.ret = procs_[q.proc].ret =>
                          calls[x].r = IF q.ret = "vector" THEN q.r \o r ELSE r

\* A call that fails, after a timeout or for its arguments, leaves the caller's
\* variable alone; and one that failed for its arguments has run no method.
FailureTouchesNothing ==
    \A x \in Calls :
        calls[x].st = "done" /\ calls[x].intret < 0 =>
            /\ calls[x].r = calls[x].q.r
            /\ calls[x].intret = unmarshal_args_failure => executed[x] = << >>

\* The client is aborted by a wrong return type at a call site and by nothing
\* else: not by wrong arguments, nor by a reply that comes late.
AbortMeansWrongReturnType ==
    status = "aborted" =>
        \E x \in Calls : calls[x].st = "done" /\ calls[x].q.ret # procs_[calls[x].q.proc].ret

=============================================================================
