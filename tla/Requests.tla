------------------------------ MODULE Requests ------------------------------
(***************************************************************************)
(* Requests to a device over a client and its caches: SNMPGet and SNMPWalk *)
(* of network/snmp_client.go, the GET of network/http_client.go, and the   *)
(* requestCache they share the code of.  Callers share one client: only a  *)
(* single access to a cache is under its lock.                             *)
(*                                                                         *)
(* An OID can be written with a leading dot or without, 1.3.6... or        *)
(* .1.3.6...: SNMPGet looks for it in the cache as the caller wrote it and *)
(* stores it as the device's answer names it, which is always with the dot.*)
(*                                                                         *)
(* The device holds the same objects all the time.  A request may fail; or *)
(* the device answers with an error status, which the client library (and  *)
(* SNMPGet after it) takes for an answer: it has no variables, or has them *)
(* with null values, and ends a walk early.  A walk is of one subtree, a   *)
(* GET of one path.                                                        *)
(***************************************************************************)
EXTENDS Integers, Sequences, FiniteSets, SequencesExt

CONSTANTS
  Callers,
  OIDs,      \* the objects asked for
  Existing,  \* those the device has an object for
  Subtree,   \* those below the OID that is walked
  Gets,      \* the lists of names that calls of SNMPGet pass
  MaxOids,   \* client.MaxOids
  Bulk,      \* the version knows bulk walks
  MaxCalls,  \* bound of the model: calls
  Tree, Path \* the keys of the walk and of the GET

ASSUME OIDsAssumption ==
  Existing \subseteq OIDs /\ Subtree \subseteq OIDs /\ IsFiniteSet(Subtree)

\* An OID as it is written: the object, and whether there is a leading dot.
Names     == OIDs \X BOOLEAN
Dotted(o) == <<o, TRUE>>
Oid(n)    == n[1]
ASSUME GetsAssumption == Gets \subseteq Seq(Names) \ {<<>>}
ASSUME MaxOidsAssumption == MaxOids \in Nat \ {0}
ASSUME CallsAssumption == MaxCalls \in Nat
ASSUME KeysAssumption == Tree \notin Names /\ Path \notin Names \cup {Tree}

Keys == Names \cup {Tree, Path}

\* A response is its OID and whether it has a value.
Response == [oid : OIDs, ok : BOOLEAN]
Answer(o) == [oid |-> o, ok |-> o \in Existing]
Null(o)   == [oid |-> o, ok |-> FALSE]
NoResult  == [kind |-> "none", responses |-> <<>>]

VARIABLES
  cache,   \* the caches: per key "none", "ok" or "failed"
  tree,    \* the responses that are stored with the walk
  calls,   \* calls so far
  pc,      \* where each caller stands
  asked,   \* the names of its call, in order
  todo,    \* names it has not looked up yet
  reqOIDs, \* names it has to request
  batch,   \* responses it has not stored yet
  found,   \* responses so far
  result,  \* what its last call returned
  known,   \* what was answered when its call began
  answered, \* keys whose outcome some call was told, errors that are cached included
  refused   \* objects, and the tree, that an answer with an error status left out

callVars == <<asked, todo, reqOIDs, batch, found, result, known>>
cacheVars == <<cache, tree, answered>>
vars == <<cacheVars, calls, pc, callVars, refused>>

\* A response without a value is stored as a failed request.
Status_OkOnly(r) == IF r.ok THEN "ok" ELSE "none"
Status(r)        == IF r.ok THEN "ok" ELSE "failed"

\* The first MaxOids of the names, and the rest.
Batch_FullOnly(s) == IF MaxOids >= Len(s) THEN <<>> ELSE SubSeq(s, 1, MaxOids)
Batch(s) == IF MaxOids >= Len(s) THEN s ELSE SubSeq(s, 1, MaxOids)
Rest_SkipOne(s) == SubSeq(s, Len(Batch(s)) + 2, Len(s))
Rest(s)         == SubSeq(s, Len(Batch(s)) + 1, Len(s))

Answers(s) == [i \in DOMAIN s |-> Answer(Oid(s[i]))]
Nulls(s)   == [i \in DOMAIN s |-> Null(Oid(s[i]))]
Oids(s)    == {Oid(n) : n \in ToSet(s)}

\* The subtree, and what a walk may bring of it.
Whole   == LET os == SetToSeq(Subtree \cap Existing) IN [i \in DOMAIN os |-> Answer(os[i])]
Walks   == {SubSeq(Whole, 1, n) : n \in 0..Len(Whole)}
-----------------------------------------------------------------------------
Init ==
  /\ cache = [k \in Keys |-> "none"]
  /\ tree = <<>>
  /\ calls = 0
  /\ pc = [c \in Callers |-> "idle"]
  /\ asked = [c \in Callers |-> <<>>]
  /\ todo = [c \in Callers |-> <<>>]
  /\ reqOIDs = [c \in Callers |-> <<>>]
  /\ batch = [c \in Callers |-> <<>>]
  /\ found = [c \in Callers |-> <<>>]
  /\ result = [c \in Callers |-> NoResult]
  /\ known = [c \in Callers |-> {}]
  /\ answered = {}
  /\ refused = {}

Begin(c, names, at) ==
  /\ pc[c] = "idle" /\ calls < MaxCalls
  /\ calls' = calls + 1
  /\ pc' = [pc EXCEPT ![c] = at]
  /\ asked' = [asked EXCEPT ![c] = names]
  /\ todo' = [todo EXCEPT ![c] = names]
  /\ found' = [found EXCEPT ![c] = <<>>]
  /\ result' = [result EXCEPT ![c] = NoResult]
  /\ known' = [known EXCEPT ![c] = answered]
  /\ UNCHANGED <<cacheVars, refused, reqOIDs, batch>>

Return(c, kind, responses) ==
  /\ pc' = [pc EXCEPT ![c] = "idle"]
  /\ result' = [result EXCEPT ![c] = [kind |-> kind, responses |-> responses]]
-----------------------------------------------------------------------------
(* SNMPGet *)

\* The names are looked up one after the other; what is missing is requested.
LookUp(c) ==
  /\ pc[c] = "lookup" /\ todo[c] # <<>>
  /\ LET n == Head(todo[c])
     IN  IF cache[n] = "none"
         THEN reqOIDs' = [reqOIDs EXCEPT ![c] = Append(@, n)] /\ UNCHANGED found
         ELSE found' = [found EXCEPT ![c] = Append(@, [oid |-> Oid(n), ok |-> cache[n] = "ok"])]
              /\ UNCHANGED reqOIDs
  /\ todo' = [todo EXCEPT ![c] = Tail(@)]
  /\ UNCHANGED <<cacheVars, refused, calls, pc, asked, batch, result, known>>

LookedUp(c) ==
  /\ pc[c] = "lookup" /\ todo[c] = <<>>
  /\ pc' = [pc EXCEPT ![c] = "get"]
  /\ UNCHANGED <<cacheVars, refused, calls, callVars>>

\* One request for a batch.  Nobody looks at the error status of the answer.
Request(c) ==
  /\ pc[c] = "get" /\ reqOIDs[c] # <<>>
  /\ LET b == Batch(reqOIDs[c])
     IN  \/ /\ batch' = [batch EXCEPT ![c] = Answers(b)]
            /\ UNCHANGED refused
         \/ /\ \E rs \in {Nulls(b), <<>>} : batch' = [batch EXCEPT ![c] = rs]
            /\ refused' = refused \cup Oids(b)
  /\ reqOIDs' = [reqOIDs EXCEPT ![c] = Rest(@)]
  /\ pc' = [pc EXCEPT ![c] = "store"]
  /\ UNCHANGED <<cacheVars, calls, asked, todo, found, result, known>>

RequestFails(c) ==
  /\ pc[c] = "get" /\ reqOIDs[c] # <<>>
  /\ reqOIDs' = [reqOIDs EXCEPT ![c] = <<>>]
  /\ Return(c, "error", <<>>)
  /\ UNCHANGED <<cacheVars, refused, calls, asked, todo, batch, found, known>>

\* The responses are stored one by one, under the names they come with.
Store(c) ==
  /\ pc[c] \in {"store", "storewalk"} /\ batch[c] # <<>>
  /\ LET r == Head(batch[c])
     IN  /\ cache' = [cache EXCEPT ![Dotted(r.oid)] = Status(r)]
         /\ found' = [found EXCEPT ![c] = Append(@, r)]
         /\ answered' = answered \cup {Dotted(r.oid)}
  /\ batch' = [batch EXCEPT ![c] = Tail(@)]
  /\ UNCHANGED <<tree, refused, calls, pc, asked, todo, reqOIDs, result, known>>

Stored(c) ==
  /\ pc[c] = "store" /\ batch[c] = <<>>
  /\ pc' = [pc EXCEPT ![c] = "get"]
  /\ UNCHANGED <<cacheVars, refused, calls, callVars>>

\* successful is set by any response with a value.
Successful(rs) == \E i \in DOMAIN rs : rs[i].ok

GetReturns(c) ==
  /\ pc[c] = "get" /\ reqOIDs[c] = <<>>
  /\ IF Successful(found[c]) THEN Return(c, "get", found[c]) ELSE Return(c, "notfound", <<>>)
  /\ UNCHANGED <<cacheVars, refused, calls, asked, todo, reqOIDs, batch, found, known>>
-----------------------------------------------------------------------------
(* SNMPWalk *)

\* A cached walk returns the responses or the error it returned before.
WalkCached(c) ==
  /\ pc[c] = "walklookup" /\ cache[Tree] # "none"
  /\ IF cache[Tree] = "ok" THEN Return(c, "walk", tree) ELSE Return(c, "error", <<>>)
  /\ UNCHANGED <<cacheVars, refused, calls, asked, todo, reqOIDs, batch, found, known>>

WalkMissed(c) ==
  /\ pc[c] = "walklookup" /\ cache[Tree] = "none"
  /\ pc' = [pc EXCEPT ![c] = IF Bulk THEN "bulk" ELSE "walk"]
  /\ UNCHANGED <<cacheVars, refused, calls, callVars>>

\* A bulk walk that fails is followed by a plain one.
BulkFails(c) ==
  /\ pc[c] = "bulk"
  /\ pc' = [pc EXCEPT ![c] = "walk"]
  /\ UNCHANGED <<cacheVars, refused, calls, callVars>>

\* The error of a plain walk is stored and returned, and so is that nothing
\* came, from an empty subtree or a walk that was ended at once.
WalkFails(c) ==
  /\ \/ pc[c] = "walk" /\ UNCHANGED refused
     \/ pc[c] = "bulk" /\ Whole = <<>> /\ UNCHANGED refused
     \/ pc[c] \in {"bulk", "walk"} /\ Whole # <<>> /\ refused' = refused \cup {Tree}
  /\ cache' = [cache EXCEPT ![Tree] = "failed"]
  /\ answered' = answered \cup {Tree}
  /\ Return(c, "error", <<>>)
  /\ UNCHANGED <<tree, calls, asked, todo, reqOIDs, batch, found, known>>

Walk(c) ==
  /\ pc[c] \in {"bulk", "walk"}
  /\ \E rs \in Walks \ {<<>>} :
       /\ batch' = [batch EXCEPT ![c] = rs]
       /\ refused' = IF rs = Whole THEN refused ELSE refused \cup {Tree}
  /\ pc' = [pc EXCEPT ![c] = "storewalk"]
  /\ UNCHANGED <<cacheVars, calls, asked, todo, reqOIDs, found, result, known>>

\* The walk itself is stored last.
WalkReturns(c) ==
  /\ pc[c] = "storewalk" /\ batch[c] = <<>>
  /\ cache' = [cache EXCEPT ![Tree] = "ok"]
  /\ tree' = found[c]
  /\ answered' = answered \cup {Tree}
  /\ Return(c, "walk", found[c])
  /\ UNCHANGED <<refused, calls, asked, todo, reqOIDs, batch, found, known>>
-----------------------------------------------------------------------------
(* Request of the HTTP client, method GET *)

\* A cached response is returned, and the error it came with is not.
HTTPCached(c) ==
  /\ pc[c] = "httplookup" /\ cache[Path] # "none"
  /\ Return(c, "http", <<>>)
  /\ UNCHANGED <<cacheVars, refused, calls, asked, todo, reqOIDs, batch, found, known>>

HTTPMissed(c) ==
  /\ pc[c] = "httplookup" /\ cache[Path] = "none"
  /\ pc' = [pc EXCEPT ![c] = "http"]
  /\ UNCHANGED <<cacheVars, refused, calls, callVars>>

HTTPRequest(c, status) ==
  /\ pc[c] = "http"
  /\ cache' = [cache EXCEPT ![Path] = status]
  /\ answered' = answered \cup {Path}
  /\ Return(c, IF status = "ok" THEN "http" ELSE "error", <<>>)
  /\ UNCHANGED <<tree, refused, calls, asked, todo, reqOIDs, batch, found, known>>
-----------------------------------------------------------------------------
Call(c) ==
  \/ \E s \in Gets : Begin(c, s, "lookup")
  \/ \E at \in {"walklookup", "httplookup"} : Begin(c, <<>>, at)

CallStep(c) ==
  \/ LookUp(c) \/ LookedUp(c) \/ Request(c) \/ RequestFails(c) \/ Store(c) \/ Stored(c)
  \/ GetReturns(c)
  \/ WalkCached(c) \/ WalkMissed(c) \/ BulkFails(c) \/ WalkFails(c) \/ Walk(c) \/ WalkReturns(c)
  \/ HTTPCached(c) \/ HTTPMissed(c)

HTTPAnswer(c) == \E status \in {"ok", "failed"} : HTTPRequest(c, status)

Next == \E c \in Callers : Call(c) \/ CallStep(c) \/ HTTPAnswer(c)

Spec == Init /\ [][Next]_vars

\* A request to the device ends: the SNMP client has a timeout and retries.  The
\* HTTP client has no timeout, and a server may never answer.
FairSpec == Spec /\ \A c \in Callers : WF_vars(CallStep(c))
-----------------------------------------------------------------------------
\* The type of every variable.
TypeOK ==
  /\ cache \in [Keys -> {"none", "ok", "failed"}]
  /\ tree \in Seq(Response)
  /\ calls \in 0..MaxCalls
  /\ pc \in [Callers -> {"idle", "lookup", "get", "store", "walklookup", "bulk", "walk",
                         "storewalk", "httplookup", "http"}]
  /\ asked \in [Callers -> Seq(Names)]
  /\ todo \in [Callers -> Seq(Names)]
  /\ reqOIDs \in [Callers -> Seq(Names)]
  /\ batch \in [Callers -> Seq(Response)]
  /\ found \in [Callers -> Seq(Response)]
  /\ result \in [Callers -> [kind : {"none", "get", "notfound", "walk", "http", "error"},
                             responses : Seq(Response)]]
  /\ known \in [Callers -> SUBSET Keys]
  /\ answered \subseteq Keys
  /\ refused \subseteq OIDs \cup {Tree}

\* A get over batches and two sources, cache and device, has no more responses
\* than names and one for each object it was asked for, as the device has it; it
\* says that nothing was found only when the device has none of the objects.
\* Only an object that an answer with an error status left out, now or
\* earlier, may be missing or without its value: it stays so in the cache.  In the
\* same way a walk returns the whole subtree, or a part of it when it was cut.
AnswersComplete ==
  \A c \in Callers :
    LET rs == result[c].responses
        os == Oids(asked[c])
    IN  /\ result[c].kind = "get" =>
             /\ Len(rs) <= Len(asked[c])
             /\ \A o \in os \ refused : Answer(o) \in ToSet(rs)
             /\ \A r \in ToSet(rs) : r.oid \in os /\ (r = Answer(r.oid) \/ r.oid \in refused)
             /\ os \cap Existing # {}
        /\ result[c].kind = "notfound" => os \cap Existing \subseteq refused
        /\ result[c].kind = "walk" =>
             /\ rs # <<>> /\ ToSet(rs) \subseteq ToSet(Whole)
             /\ Tree \notin refused => ToSet(rs) = ToSet(Whole)

\* What an earlier call was told is not requested again, whichever call it
\* was: also when it was told that there is no such object, or that a walk or
\* an HTTP request failed, and when the answer came with a get that failed
\* half-way or with a walk.  This is so for OIDs in the form that answers have,
\* with the leading dot (known has no other); those without are requested again
\* each time.
NotAskedAgain ==
  \A c \in Callers :
    /\ \A o \in OIDs : Dotted(o) \in known[c] => Dotted(o) \notin ToSet(reqOIDs[c])
    /\ pc[c] \in {"bulk", "walk"} => Tree \notin known[c]
    /\ pc[c] = "http" => Path \notin known[c]

\* Every get and walk of SNMP returns, whatever fails and however long another
\* caller waits; a GET returns or waits for the HTTP server.
CallsReturn == \A c \in Callers : pc[c] # "idle" ~> pc[c] \in {"idle", "http"}
=============================================================================
