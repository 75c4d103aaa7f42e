------------------------------ MODULE BridgeFile ------------------------------
(***************************************************************************)
(* One store.json and the MCP hosts that keep it                           *)
(* (packages/rap-mcp-bridge/src/store.ts).  An upsert is one synchronous   *)
(* read, decision and rewrite of the whole file, so calls of one process   *)
(* never interleave; two processes over one directory do, and the rewrite  *)
(* empties the file before it fills it.  A file that does not parse reads  *)
(* as an empty store.                                                      *)
(***************************************************************************)
EXTENDS Naturals

CONSTANTS
    Hosts,      \* the bridge processes over one directory
    Keys,       \* idempotency keys
    Terms,      \* what a request is about: the quote paid, or the request's hash
    NoKey,      \* a quote request without a key
    NoBinding,  \* a key that is not bound
    Torn,       \* a file that does not parse
    MaxCalls    \* bound: upserts made

Tools == {"quote", "devnet", "x402"}

\* Two of the three tools answer a bound key with what it is bound to.
Replaying == {"quote", "x402"}

Request == {r \in [tool : Tools, key : Keys \cup {NoKey}, about : Terms] :
                r.tool # "quote" => r.key # NoKey}
Item == [tool : Tools, id : Nat, about : Terms]
Binding == [id : Nat, about : Terms]
Content == [items : SUBSET Item,
            bound : [Tools -> [Keys -> Binding \cup {NoBinding}]]]
Answer == [tool : Tools, key : Keys \cup {NoKey}, about : Terms, id : Nat]

ASSUME MarkerAssumption ==
    NoKey \notin Keys /\ NoBinding \notin Binding /\ Torn \notin Content
ASSUME CallAssumption == MaxCalls \in Nat

Empty == [items |-> {}, bound |-> [t \in Tools |-> [k \in Keys |-> NoBinding]]]

VARIABLES
    file,       \* store.json: its content, or Torn
    host,       \* where each process is in its upsert
    calls,      \* upserts made so far; the next item's id
    answers,    \* what the tools returned
    mishaps     \* history: "overlap", two upserts at once; "tear", a lost rewrite

vars == <<file, host, calls, answers, mishaps>>

Resting == [at |-> "idle"]
Upsert == [at : {"write", "truncated"}, request : Request, id : Nat, data : Content]

TypeOK ==
    /\ file \in Content \cup {Torn}
    /\ host \in [Hosts -> {Resting} \cup Upsert]
    /\ calls \in Nat
    /\ answers \subseteq Answer
    /\ mishaps \subseteq {"overlap", "tear"}

Init ==
    /\ file = Empty
    /\ host = [h \in Hosts |-> Resting]
    /\ calls = 0
    /\ answers = {}
    /\ mishaps = {}

-----------------------------------------------------------------------------
Idle(h) == host[h].at = "idle"

\* read(): whatever is wrong with the file, the store is empty.
Read == IF file = Torn THEN Empty ELSE file

Bound(r, data) == r.key # NoKey /\ data.bound[r.tool][r.key] # NoBinding
Prior(r, data) == data.bound[r.tool][r.key]

\* The key is bound to another request.
Conflicts(r, data) ==
    /\ r.tool \in Replaying
    /\ Bound(r, data) /\ Prior(r, data).about # r.about

\* The quote has a receipt.
PaidUnderKey(r, data) ==
    r.tool = "devnet" /\ Bound(r, data) /\ Prior(r, data).about = r.about
Paid(r, data) ==
    r.tool = "devnet" /\ \E i \in data.items : i.tool = "devnet" /\ i.about = r.about

\* The key is bound to this request, and its item is still there.
KnownNever(r, data) == FALSE
Known(r, data) ==
    /\ r.tool \in Replaying
    /\ Bound(r, data)
    /\ \E i \in data.items : i.tool = r.tool /\ i.id = Prior(r, data).id

\* The store with a new item, and the key bound to it.
Replaced(r, id, data) ==
    [items |-> {i \in data.items : i.tool # r.tool \/ i.about # r.about}
               \cup {[tool |-> r.tool, id |-> id, about |-> r.about]},
     bound |-> IF r.key = NoKey THEN data.bound
               ELSE [data.bound EXCEPT
                        ![r.tool][r.key] = [id |-> id, about |-> r.about]]]
Added(r, id, data) ==
    [items |-> data.items \cup {[tool |-> r.tool, id |-> id, about |-> r.about]},
     bound |-> IF r.key = NoKey THEN data.bound
               ELSE [data.bound EXCEPT
                        ![r.tool][r.key] = [id |-> id, about |-> r.about]]]

AnswerOf(r, id) == [tool |-> r.tool, key |-> r.key, about |-> r.about, id |-> id]

Begun(h) ==
    /\ Idle(h) /\ calls < MaxCalls
    /\ calls' = calls + 1
    /\ mishaps' = mishaps
        \cup (IF \E g \in Hosts \ {h} : ~Idle(g) THEN {"overlap"} ELSE {})

\* idempotency_key_conflict, quote_already_paid.
Refuse(h, r) ==
    /\ Begun(h)
    /\ Conflicts(r, Read) \/ Paid(r, Read)
    /\ UNCHANGED <<file, host, answers>>

Replay(h, r) ==
    /\ Begun(h)
    /\ ~Conflicts(r, Read) /\ Known(r, Read)
    /\ answers' = answers \cup {AnswerOf(r, Prior(r, Read).id)}
    /\ UNCHANGED <<file, host>>

Prepare(h, r) ==
    /\ Begun(h)
    /\ ~Conflicts(r, Read) /\ ~Paid(r, Read) /\ ~Known(r, Read)
    /\ host' = [host EXCEPT ![h] =
                    [at |-> "write", request |-> r, id |-> calls,
                     data |-> Added(r, calls, Read)]]
    /\ UNCHANGED <<file, answers>>

\* writeFileSync opens the file and empties it ...
Truncate(h) ==
    /\ host[h].at = "write"
    /\ file' = Torn
    /\ host' = [host EXCEPT ![h].at = "truncated"]
    /\ UNCHANGED <<calls, answers, mishaps>>

\* ... and fills it from its beginning: over what another process has written
\* since, of which a longer tail stays behind.
Fill(h) ==
    /\ host[h].at = "truncated"
    /\ file' \in IF file = Torn THEN {host[h].data} ELSE {host[h].data, Torn}
    /\ host' = [host EXCEPT ![h] = Resting]
    /\ answers' = answers \cup {AnswerOf(host[h].request, host[h].id)}
    /\ UNCHANGED <<calls, mishaps>>

\* The process ends anywhere in its upsert.
Crash(h) ==
    /\ ~Idle(h)
    /\ mishaps' = mishaps \cup (IF host[h].at = "truncated" THEN {"tear"} ELSE {})
    /\ host' = [host EXCEPT ![h] = Resting]
    /\ UNCHANGED <<file, calls, answers>>

Next ==
    \E h \in Hosts :
        \/ \E r \in Request : Refuse(h, r) \/ Replay(h, r) \/ Prepare(h, r)
        \/ Truncate(h) \/ Fill(h) \/ Crash(h)

Spec == Init /\ [][Next]_vars

-----------------------------------------------------------------------------
Stored(tool, id, data) == \E i \in data.items : i.tool = tool /\ i.id = id

\* Whatever overlapped and whatever was torn, a file that parses is a store: no
\* key is bound to an item that is not there, and no quote has two receipts.
\* (The lookups by key find the item, so a bound key is never served twice.)
KeysResolve ==
    file # Torn =>
        /\ \A t \in Tools, k \in Keys :
            file.bound[t][k] # NoBinding => Stored(t, file.bound[t][k].id, file)
        /\ \A i, j \in file.items :
            i.tool = "devnet" /\ j.tool = "devnet" /\ i.about = j.about => i = j

\* Nothing a tool has returned is forgotten, over any number of processes and
\* crashes, unless two upserts overlapped or a rewrite was cut short.
AnswersKept ==
    mishaps = {} /\ file # Torn =>
        \A a \in answers : Stored(a.tool, a.id, file)

\* "A replayed quote id or idempotency key should return deterministic local
\* quote state" (README of the bridge): under the same proviso, two answers to
\* one key are one item, and answer one request.
KeysAnswerOnce ==
    mishaps = {} =>
        \A a, b \in answers :
            a.tool \in Replaying /\ a.tool = b.tool /\ a.key = b.key /\ a.key # NoKey
            => a.id = b.id /\ a.about = b.about
=============================================================================
