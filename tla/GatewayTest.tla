----------------------------- MODULE GatewayTest -----------------------------
(***************************************************************************)
(* src/bin/bamboo/dht/gateway_test.c driving a DHT gateway through the     *)
(* rpcgen stubs of src/src/bamboo/dht/gateway_prot_clnt.c.                 *)
(*                                                                         *)
(* The test puts "Hello, world." and then "Goodbye, world." under one key, *)
(* reads them back one value per get (maxvals = 1) following the           *)
(* placemark, then puts the second value under a second key and reads it.  *)
(* Its keys come from rand() after srand(1), so every run uses the same    *)
(* two keys K1 and K2.  A stub call is two steps: the request goes out     *)
(* (the gateway applies it, and the request or the reply may be lost),     *)
(* then clnt_call returns with the reply or, after its TIMEOUT of 25 s,    *)
(* with an error.  The gateway keeps its values for the TTL of one hour,   *)
(* longer than the time between two runs of the test.                      *)
(***************************************************************************)
EXTENDS Naturals, Sequences

CONSTANTS
  K1, K2,      \* the keys random_key gives after srand(1)
  V1, V2,      \* value_val1 "Hello, world.", value_val2 "Goodbye, world."
  Argcs,       \* the argument counts main may be started with
  RpcFails,    \* clnt_create and clnt_call may fail: lost request or reply
  PutRefused,  \* the gateway may answer a put with a status other than OK
  MaxRuns      \* bound on the runs of the test against one gateway

ASSUME Argcs \subseteq 1 .. 3 /\ RpcFails \in BOOLEAN /\ PutRefused \in BOOLEAN
ASSUME MaxRuns \in Nat \ {0}

Keys   == {K1, K2}
Values == {V1, V2}
NoKey  == "none"
NoReply == <<>>

VARIABLES
  store,     \* the gateway: key -> the values it holds
  pc,        \* the point run_test has reached
  call,      \* "idle", or "waiting" inside clnt_call
  reply,     \* <<the reply>> on its way back, or NoReply
  pm,        \* get_args.placemark: the values of K1 returned so far
  first,     \* first: the second get returned value_val1
  argc,      \* argc of this run
  outcome,   \* "none" while running, else how the run ended
  faulted,   \* a call of this run failed or a put was refused (auxiliary)
  fresh,     \* the gateway held nothing under K1 and K2 when the run began
  runs       \* runs started

vars == <<store, pc, call, reply, pm, first, argc, outcome, faulted, fresh, runs>>

\* Mutant: the get after the put under the new key still reads K1 (the
\* memcpy of put_args.key into get_args.key is left out).
Get4KeyStale == K1

\* the key of the last get: the new random key, copied from put_args
Get4Key == K2

\* the RPC each point of run_test makes
Request ==
  [null |-> [proc |-> "null", key |-> NoKey, val |-> V1],
   put1 |-> [proc |-> "put",  key |-> K1, val |-> V1],
   get1 |-> [proc |-> "get",  key |-> K1, val |-> V1],
   put2 |-> [proc |-> "put",  key |-> K1, val |-> V2],
   get2 |-> [proc |-> "get",  key |-> K1, val |-> V1],
   get3 |-> [proc |-> "get",  key |-> K1, val |-> V1],
   put3 |-> [proc |-> "put",  key |-> K2, val |-> V2],
   get4 |-> [proc |-> "get",  key |-> Get4Key, val |-> V1]]

CallPoints == DOMAIN Request

\* Mutant: the placemark of the second reply is not copied into get_args.
PlacemarkOfDropped(p) == {}

\* the placemark a get sends: the one copied after the second get, for
\* the third; none before it, and reset to NULL for the last
PlacemarkOf(p) == IF p = "get3" THEN pm ELSE {}

\* the replies the gateway may give to request r (maxvals = 1: one value
\* past the placemark, in an order of its choosing)
Answers(r, mark) ==
  CASE r.proc = "null" -> {"void"}
    [] r.proc = "put"  -> IF PutRefused THEN {"ok", "over capacity"} ELSE {"ok"}
    [] r.proc = "get"  ->
         IF store[r.key] \ mark = {} THEN {<<>>}
         ELSE {<<v>> : v \in store[r.key] \ mark}

\* what the gateway does on request r answered with a
Applied(r, a) ==
  IF r.proc = "put" /\ a = "ok"
  THEN [store EXCEPT ![r.key] = @ \cup {r.val}]
  ELSE store

Init ==
  /\ store = [k \in Keys |-> {}]
  /\ pc = "main"
  /\ call = "idle"
  /\ reply = NoReply
  /\ pm = {}
  /\ first = FALSE
  /\ argc = 1
  /\ outcome = "none"
  /\ faulted = FALSE
  /\ fresh = TRUE
  /\ runs = 1

\* the run ends: exit(0), or exit(1) after clnt_perror or printf
Exit(why) ==
  /\ outcome' = why
  /\ pc' = "exit"

(***************************************************************************)
(* main, lookup_server and connect_to_server.  argc < 2 prints the usage; *)
(* with argc = 2, atoi(argv[2]) reads a NULL pointer: a crash with glibc,   *)
(* port 0 and a failing clnttcp_create where atoi(NULL) returns 0.         *)
(***************************************************************************)
Main(n) ==
  /\ pc = "main"
  /\ argc' = n
  /\ \/ /\ n < 2
        /\ Exit("usage")
        /\ faulted' = TRUE
     \/ /\ n = 2
        /\ \/ outcome' = "crash" /\ pc' = "exit"
           \/ Exit("rpc error")
        /\ UNCHANGED faulted
     \/ /\ n > 2
        /\ \/ pc' = "null" /\ UNCHANGED <<outcome, faulted>>
           \/ RpcFails /\ Exit("rpc error") /\ faulted' = TRUE
  /\ UNCHANGED <<store, call, reply, pm, first, fresh, runs>>

(***************************************************************************)
(* A stub call: memset of the static clnt_res, then clnt_call.  The        *)
(* request reaches the gateway or is lost; an answered request may have    *)
(* its reply lost.                                                         *)
(***************************************************************************)
Send ==
  /\ pc \in CallPoints /\ call = "idle"
  /\ LET r == Request[pc] IN
       \E a \in Answers(r, PlacemarkOf(pc)),
          fate \in IF RpcFails THEN {"delivered", "request lost", "reply lost"}
                   ELSE {"delivered"} :
         /\ store' = IF fate = "request lost" THEN store ELSE Applied(r, a)
         /\ reply' = IF fate = "delivered" THEN <<a>> ELSE NoReply
         /\ faulted' = (faulted \/ fate # "delivered" \/ a = "over capacity")
  /\ call' = "waiting"
  /\ UNCHANGED <<pc, pm, first, argc, outcome, fresh, runs>>

\* Mutant: the stubs wait for the reply with no time limit.
TimeoutNever == FALSE

\* clnt_call gives up after TIMEOUT: the stub returns NULL and the caller
\* exits; a reply still on its way may be what the timeout races
Timeout ==
  /\ call = "waiting"
  /\ reply = NoReply \/ RpcFails
  /\ call' = "idle"
  /\ reply' = NoReply
  /\ Exit("rpc error")
  /\ faulted' = TRUE
  /\ UNCHANGED <<store, pm, first, argc, fresh, runs>>

\* the checks run_test makes on the reply at each point: the next point,
\* or the failure it exits with
NextPoint == [null |-> "put1", put1 |-> "get1", put2 |-> "get2", put3 |-> "get4"]

\* do_put checks only that the stub did not return NULL: the status is
\* not looked at
Get1Ok(r) == Len(r) = 1 /\ r[1] = V1
Get2Ok(r) == Len(r) = 1 /\ r[1] \in Values
Get3Ok(r) == Len(r) = 1 /\ r[1] = IF first THEN V2 ELSE V1
Get4Ok(r) == Len(r) = 1 /\ r[1] = V2

\* clnt_call returns RPC_SUCCESS with the reply in clnt_res
Return ==
  /\ call = "waiting" /\ reply # NoReply
  /\ call' = "idle"
  /\ reply' = NoReply
  /\ \/ /\ pc \in DOMAIN NextPoint
        /\ pc' = NextPoint[pc]
        /\ UNCHANGED <<pm, first, outcome>>
     \/ /\ pc = "get1"
        /\ IF Get1Ok(reply[1]) THEN pc' = "put2" /\ UNCHANGED outcome
           ELSE Exit("check failed")
        /\ UNCHANGED <<pm, first>>
     \/ /\ pc = "get2"
        /\ IF Get2Ok(reply[1])
           THEN /\ pc' = "get3"
                /\ first' = (reply[1][1] = V1)
                /\ pm' = {reply[1][1]}
                /\ UNCHANGED outcome
           ELSE /\ Exit("check failed")
                /\ UNCHANGED <<pm, first>>
     \/ /\ pc = "get3"
        /\ IF Get3Ok(reply[1]) THEN pc' = "put3" /\ UNCHANGED outcome
           ELSE Exit("check failed")
        /\ UNCHANGED <<pm, first>>
     \/ /\ pc = "get4"
        /\ IF Get4Ok(reply[1]) THEN Exit("pass")
           ELSE Exit("check failed")
        /\ UNCHANGED <<pm, first>>
  /\ UNCHANGED <<store, argc, faulted, fresh, runs>>

\* the test is run again against the same gateway, within the hour
Rerun ==
  /\ outcome # "none" /\ runs < MaxRuns
  /\ runs' = runs + 1
  /\ pc' = "main"
  /\ pm' = {} /\ first' = FALSE
  /\ outcome' = "none" /\ faulted' = FALSE
  /\ fresh' = \A k \in Keys : store[k] = {}
  /\ UNCHANGED <<store, call, reply, argc>>

Client == (\E n \in Argcs : Main(n)) \/ Send \/ Timeout \/ Return

Next == Client \/ Rerun

\* clnt_call always returns, with a reply or after TIMEOUT, and the test
\* is a single sequential process: each step it can take, it takes
Spec == Init /\ [][Next]_vars /\ WF_vars(Client)

\* The test passes only if the gateway holds what it checked: both values
\* under the first key and the second under the new key.  do_put ignores
\* the put status, so only the gets after each put make this true.
TestSound ==
  outcome = "pass" => store[K1] = Values /\ V2 \in store[K2]

\* The test fails a check only when the gateway misbehaved: a run that
\* began against a gateway holding nothing under its keys, in which every
\* call got its reply and every put was accepted, never ends with "check
\* failed" (run_test reads the two values of K1 in either order, following
\* the placemark).
NoSpuriousFailure ==
  outcome = "check failed" => faulted \/ ~fresh

\* A run of the test in which every call got its reply and every put was
\* accepted passes, whatever earlier runs left in the gateway.
RerunPasses ==
  outcome = "check failed" => faulted

\* Every run ends: clnt_call returns within its TIMEOUT whatever the
\* network loses.
Terminates ==
  outcome = "none" ~> outcome # "none"

=============================================================================
