--------------------------- MODULE BridgeFileProofs --------------------------
(***************************************************************************)
(* What one store.json keeps, for any number of processes, keys and calls. *)
(* KeysResolve needs nothing but that every content, the file's and the    *)
(* ones about to be written, is a store.  The other two need what the      *)
(* processes hold while nothing has gone wrong: at most one is inside an   *)
(* upsert, the file is torn only while that one rewrites it, and whatever  *)
(* will be the file's content holds every answer.                          *)
(***************************************************************************)
EXTENDS BridgeFile, TLAPS

\* A content is a store.
Consistent(data) ==
    /\ \A t \in Tools, k \in Keys :
        data.bound[t][k] # NoBinding => Stored(t, data.bound[t][k].id, data)
    /\ \A i, j \in data.items :
        i.tool = "devnet" /\ j.tool = "devnet" /\ i.about = j.about => i = j

StoreInv ==
    /\ TypeOK
    /\ file # Torn => Consistent(file)
    /\ \A h \in Hosts : ~Idle(h) => Consistent(host[h].data)

-----------------------------------------------------------------------------
LEMMA EmptyIsStore == Empty \in Content /\ Consistent(Empty)
<1>1. Empty \in Content  BY DEF Empty, Content
<1>2. Consistent(Empty)  BY DEF Empty, Consistent
<1> QED  BY <1>1, <1>2

LEMMA ReadIsStore ==
    ASSUME StoreInv
    PROVE  Read \in Content /\ Consistent(Read)
BY EmptyIsStore DEF StoreInv, TypeOK, Read

\* What Added does to a content: the items it has stay, the new one is there,
\* and only the request's key changes what it is bound to.
LEMMA AddedShape ==
    ASSUME NEW r \in Request, NEW id \in Nat, NEW data \in Content,
           NEW new, new = Added(r, id, data)
    PROVE  /\ new \in Content
           /\ new.items = data.items \cup {[tool |-> r.tool, id |-> id, about |-> r.about]}
           /\ \A t \in Tools, k \in Keys :
                new.bound[t][k] = IF t = r.tool /\ k = r.key
                                  THEN [id |-> id, about |-> r.about]
                                  ELSE data.bound[t][k]
<1>1. /\ r.tool \in Tools /\ r.key \in Keys \cup {NoKey} /\ r.about \in Terms
      /\ NoKey \notin Keys
  BY MarkerAssumption DEF Request
<1>2. [tool |-> r.tool, id |-> id, about |-> r.about] \in Item  BY <1>1 DEF Item
<1>3. [id |-> id, about |-> r.about] \in Binding  BY <1>1 DEF Binding
<1>4. data.items \in SUBSET Item
      /\ data.bound \in [Tools -> [Keys -> Binding \cup {NoBinding}]]
  BY DEF Content
<1> DEFINE bound == IF r.key = NoKey THEN data.bound
                    ELSE [data.bound EXCEPT
                            ![r.tool][r.key] = [id |-> id, about |-> r.about]]
           items == data.items \cup {[tool |-> r.tool, id |-> id, about |-> r.about]}
<1>5. bound \in [Tools -> [Keys -> Binding \cup {NoBinding}]]
  BY <1>1, <1>3, <1>4
<1>6. \A t \in Tools, k \in Keys :
         bound[t][k] = IF t = r.tool /\ k = r.key
                       THEN [id |-> id, about |-> r.about] ELSE data.bound[t][k]
  BY <1>1, <1>3, <1>4
<1>7. items \in SUBSET Item  BY <1>2, <1>4
<1>8. new = [items |-> items, bound |-> bound]  BY <1>1 DEF Added
<1> HIDE DEF bound, items
<1>9. new \in Content /\ new.items = items /\ new.bound = bound
  BY <1>5, <1>7, <1>8 DEF Content
<1> QED  BY <1>6, <1>9 DEF items

\* A store stays one when a receipt for an unpaid quote, or any other item, is
\* added.
LEMMA AddedIsStore ==
    ASSUME NEW r \in Request, NEW id \in Nat, NEW data \in Content,
           Consistent(data), ~Paid(r, data), NEW new, new = Added(r, id, data)
    PROVE  Consistent(new)
<1> DEFINE item == [tool |-> r.tool, id |-> id, about |-> r.about]
<1>1. /\ new.items = data.items \cup {item}
      /\ \A t \in Tools, k \in Keys :
           new.bound[t][k] = IF t = r.tool /\ k = r.key
                             THEN [id |-> id, about |-> r.about]
                             ELSE data.bound[t][k]
  BY AddedShape
<1>2. item.tool = r.tool /\ item.id = id /\ item.about = r.about
  OBVIOUS
<1> HIDE DEF item
<1>3. ASSUME NEW t \in Tools, NEW k \in Keys, new.bound[t][k] # NoBinding
      PROVE  Stored(t, new.bound[t][k].id, new)
  <2>1. CASE t = r.tool /\ k = r.key
    <3>1. new.bound[t][k].id = id  BY <1>1, <2>1
    <3> QED  BY <1>1, <1>2, <2>1, <3>1 DEF Stored
  <2>2. CASE ~(t = r.tool /\ k = r.key)
    <3>1. new.bound[t][k] = data.bound[t][k]  BY <1>1, <2>2
    <3>2. Stored(t, data.bound[t][k].id, data)  BY <1>3, <3>1 DEF Consistent
    <3> QED  BY <1>1, <3>1, <3>2 DEF Stored
  <2> QED  BY <2>1, <2>2
<1>4. ASSUME NEW i \in new.items, NEW j \in new.items,
             i.tool = "devnet", j.tool = "devnet", i.about = j.about
      PROVE  i = j
  <2>1. ~(r.tool = "devnet" /\ \E k \in data.items : k.tool = "devnet" /\ k.about = r.about)
    BY DEF Paid
  <2> QED  BY <1>1, <1>2, <1>4, <2>1 DEF Consistent
<1> QED  BY <1>3, <1>4 DEF Consistent

\* What the record of a busy process is.
LEMMA BusyHost ==
    ASSUME TypeOK, NEW h \in Hosts, ~Idle(h)
    PROVE  /\ host[h] \in Upsert /\ host[h].data \in Content
           /\ host[h].request \in Request /\ host[h].id \in Nat
<1>1. host[h] \in {Resting} \cup Upsert  BY DEF TypeOK
<1>2. host[h] # Resting  BY DEF Idle, Resting
<1> QED  BY <1>1, <1>2 DEF Upsert

\* How a step changes the processes: one rests, starts, or goes on.
LEMMA HostChange ==
    ASSUME TypeOK, NEW h \in Hosts, NEW v, host' = [host EXCEPT ![h] = v]
    PROVE  host'[h] = v /\ \A g \in Hosts \ {h} : host'[g] = host[g]
BY DEF TypeOK

LEMMA TruncatedHost ==
    ASSUME TypeOK, NEW h \in Hosts, Truncate(h)
    PROVE  /\ ~Idle(h) /\ host' \in [Hosts -> {Resting} \cup Upsert]
           /\ host'[h].at = "truncated" /\ host'[h].data = host[h].data
           /\ host'[h].id = host[h].id /\ host'[h].request = host[h].request
           /\ \A g \in Hosts \ {h} : host'[g] = host[g]
<1>1. ~Idle(h)  BY DEF Truncate, Idle
<1>2. host[h] \in Upsert  BY <1>1, BusyHost
<1>3. [host[h] EXCEPT !.at = "truncated"] \in Upsert  BY <1>2 DEF Upsert
<1>4. host' = [host EXCEPT ![h] = [host[h] EXCEPT !.at = "truncated"]]
  BY DEF Truncate, TypeOK
<1>5. host'[h] = [host[h] EXCEPT !.at = "truncated"]
      /\ \A g \in Hosts \ {h} : host'[g] = host[g]
  BY <1>4, HostChange
<1>6. host' \in [Hosts -> {Resting} \cup Upsert]  BY <1>3, <1>4 DEF TypeOK
<1> QED  BY <1>1, <1>2, <1>5, <1>6 DEF Upsert

\* The upsert a request starts.
LEMMA PreparedHost ==
    ASSUME TypeOK, Read \in Content, NEW h \in Hosts, NEW r \in Request, Prepare(h, r)
    PROVE  /\ host' \in [Hosts -> {Resting} \cup Upsert]
           /\ host'[h].at = "write" /\ host'[h].data = Added(r, calls, Read)
           /\ host'[h].id = calls /\ host'[h].request = r
           /\ \A g \in Hosts \ {h} : host'[g] = host[g]
<1> DEFINE new == Added(r, calls, Read)
           v == [at |-> "write", request |-> r, id |-> calls, data |-> new]
<1>1. calls \in Nat  BY DEF TypeOK
<1>2. new \in Content  BY <1>1, AddedShape
<1>3. host' = [host EXCEPT ![h] = v]  BY DEF Prepare
<1> HIDE DEF new
<1>4. v \in Upsert  BY <1>1, <1>2 DEF Upsert
<1>5. v.at = "write" /\ v.data = new /\ v.id = calls /\ v.request = r  OBVIOUS
<1> HIDE DEF v
<1>6. host'[h] = v /\ \A g \in Hosts \ {h} : host'[g] = host[g]  BY <1>3, HostChange
<1>7. host' \in [Hosts -> {Resting} \cup Upsert]  BY <1>3, <1>4 DEF TypeOK
<1> QED  BY <1>5, <1>6, <1>7 DEF new

LEMMA RestedHost ==
    ASSUME TypeOK, NEW h \in Hosts, host' = [host EXCEPT ![h] = Resting]
    PROVE  /\ host' \in [Hosts -> {Resting} \cup Upsert]
           /\ host'[h].at = "idle"
           /\ \A g \in Hosts \ {h} : host'[g] = host[g]
<1>1. host'[h] = Resting /\ \A g \in Hosts \ {h} : host'[g] = host[g]
  BY HostChange
<1> QED  BY <1>1 DEF TypeOK, Resting

\* An answer has its type.
LEMMA AnswerType ==
    ASSUME NEW r \in Request, NEW id \in Nat
    PROVE  AnswerOf(r, id) \in Answer
BY DEF AnswerOf, Answer, Request

\* A bound key names an item by its number.
LEMMA BoundType ==
    ASSUME NEW data \in Content, NEW r \in Request, Bound(r, data)
    PROVE  /\ r.key \in Keys /\ r.tool \in Tools
           /\ Prior(r, data) \in Binding /\ Prior(r, data).id \in Nat
<1>1. r.key \in Keys /\ r.tool \in Tools  BY DEF Bound, Request
<1>2. data.bound \in [Tools -> [Keys -> Binding \cup {NoBinding}]]  BY DEF Content
<1>3. Prior(r, data) \in Binding  BY <1>1, <1>2 DEF Bound, Prior
<1> QED  BY <1>1, <1>3 DEF Binding

-----------------------------------------------------------------------------
LEMMA StoreInit == Init => StoreInv
<1> SUFFICES ASSUME Init PROVE StoreInv
  OBVIOUS
<1>1. file = Empty /\ Empty \in Content /\ Consistent(Empty)
  BY EmptyIsStore DEF Init
<1>2. \A h \in Hosts : Idle(h)  BY DEF Init, Idle, Resting
<1>3. TypeOK  BY <1>1 DEF Init, TypeOK
<1> QED  BY <1>1, <1>2, <1>3 DEF StoreInv

LEMMA StoreStep == StoreInv /\ [Next]_vars => StoreInv'
<1> SUFFICES ASSUME StoreInv, [Next]_vars PROVE StoreInv'
  OBVIOUS
<1>0. /\ TypeOK /\ Read \in Content /\ Consistent(Read) /\ calls \in Nat
      /\ file # Torn => Consistent(file)
      /\ \A h \in Hosts : ~Idle(h) => Consistent(host[h].data)
  BY ReadIsStore DEF StoreInv, TypeOK
<1>1. ASSUME NEW h \in Hosts, Begun(h)
      PROVE  calls' \in Nat /\ mishaps' \subseteq {"overlap", "tear"}
  <2>1. calls' = calls + 1  BY <1>1 DEF Begun
  <2>2. mishaps' \subseteq mishaps \cup {"overlap"}  BY <1>1 DEF Begun
  <2> QED  BY <1>0, <2>1, <2>2 DEF TypeOK
<1>2. ASSUME NEW h \in Hosts, NEW r \in Request, Refuse(h, r) PROVE StoreInv'
  <2>1. calls' \in Nat /\ mishaps' \subseteq {"overlap", "tear"}
    BY <1>1, <1>2 DEF Refuse
  <2>2. UNCHANGED <<file, host, answers>>  BY <1>2 DEF Refuse
  <2> QED  BY <1>0, <2>1, <2>2 DEF StoreInv, TypeOK, Idle
<1>3. ASSUME NEW h \in Hosts, NEW r \in Request, Replay(h, r) PROVE StoreInv'
  <2>1. calls' \in Nat /\ mishaps' \subseteq {"overlap", "tear"}
    BY <1>1, <1>3 DEF Replay
  <2>2. /\ UNCHANGED <<file, host>> /\ Bound(r, Read)
        /\ answers' = answers \cup {AnswerOf(r, Prior(r, Read).id)}
    BY <1>3 DEF Replay, Known
  <2>3. AnswerOf(r, Prior(r, Read).id) \in Answer
    BY <1>0, <2>2, BoundType, AnswerType
  <2>4. answers' \subseteq Answer  BY <1>0, <2>2, <2>3 DEF TypeOK
  <2> QED  BY <1>0, <2>1, <2>2, <2>4 DEF StoreInv, TypeOK, Idle
<1>4. ASSUME NEW h \in Hosts, NEW r \in Request, Prepare(h, r) PROVE StoreInv'
  <2>1. calls' \in Nat /\ mishaps' \subseteq {"overlap", "tear"}
    BY <1>1, <1>4 DEF Prepare
  <2>2. UNCHANGED <<file, answers>> /\ ~Paid(r, Read)  BY <1>4 DEF Prepare
  <2>3. /\ host' \in [Hosts -> {Resting} \cup Upsert]
        /\ host'[h].data = Added(r, calls, Read)
        /\ \A g \in Hosts \ {h} : host'[g] = host[g]
    BY <1>0, <1>4, PreparedHost
  <2>4. Consistent(host'[h].data)
    BY <1>0, <2>2, <2>3, AddedIsStore
  <2>5. \A g \in Hosts : ~Idle(g)' => Consistent(host'[g].data)
    BY <1>0, <2>3, <2>4 DEF Idle
  <2>6. TypeOK'  BY <1>0, <2>1, <2>2, <2>3 DEF TypeOK
  <2>7. file' # Torn => Consistent(file')  BY <1>0, <2>2
  <2> QED  BY <2>5, <2>6, <2>7 DEF StoreInv, Consistent, Stored
<1>5. ASSUME NEW h \in Hosts, Truncate(h) PROVE StoreInv'
  <2>1. file' = Torn /\ UNCHANGED <<calls, answers, mishaps>>  BY <1>5 DEF Truncate
  <2>2. /\ ~Idle(h) /\ host' \in [Hosts -> {Resting} \cup Upsert]
        /\ host'[h].data = host[h].data
        /\ \A g \in Hosts \ {h} : host'[g] = host[g]
    BY <1>0, <1>5, TruncatedHost
  <2>3. \A g \in Hosts : ~Idle(g)' => Consistent(host'[g].data)
    BY <1>0, <2>2 DEF Idle
  <2>4. TypeOK'  BY <1>0, <2>1, <2>2 DEF TypeOK
  <2> QED  BY <2>1, <2>3, <2>4 DEF StoreInv, Consistent, Stored
<1>6. ASSUME NEW h \in Hosts, Fill(h) PROVE StoreInv'
  <2>1. ~Idle(h)  BY <1>6 DEF Fill, Idle
  <2>2. /\ host[h].data \in Content /\ host[h].request \in Request /\ host[h].id \in Nat
        /\ Consistent(host[h].data)
    BY <1>0, <2>1, BusyHost
  <2>3. /\ file' \in {host[h].data, Torn} /\ UNCHANGED <<calls, mishaps>>
        /\ host' = [host EXCEPT ![h] = Resting]
        /\ answers' = answers \cup {AnswerOf(host[h].request, host[h].id)}
    BY <1>6 DEF Fill
  <2>4. /\ host' \in [Hosts -> {Resting} \cup Upsert] /\ host'[h].at = "idle"
        /\ \A g \in Hosts \ {h} : host'[g] = host[g]
    BY <1>0, <2>3, RestedHost
  <2>5. \A g \in Hosts : ~Idle(g)' => Consistent(host'[g].data)
    BY <1>0, <2>4 DEF Idle
  <2>6. AnswerOf(host[h].request, host[h].id) \in Answer  BY <2>2, AnswerType
  <2>7. TypeOK'  BY <1>0, <2>2, <2>3, <2>4, <2>6 DEF TypeOK
  <2>8. file' # Torn => Consistent(file')  BY <2>2, <2>3
  <2> QED  BY <2>5, <2>7, <2>8 DEF StoreInv, Consistent, Stored
<1>7. ASSUME NEW h \in Hosts, Crash(h) PROVE StoreInv'
  <2>1. UNCHANGED <<file, calls, answers>> /\ host' = [host EXCEPT ![h] = Resting]
    BY <1>7 DEF Crash
  <2>2. mishaps' \subseteq mishaps \cup {"tear"}  BY <1>7 DEF Crash
  <2>3. /\ host' \in [Hosts -> {Resting} \cup Upsert] /\ host'[h].at = "idle"
        /\ \A g \in Hosts \ {h} : host'[g] = host[g]
    BY <1>0, <2>1, RestedHost
  <2>4. \A g \in Hosts : ~Idle(g)' => Consistent(host'[g].data)
    BY <1>0, <2>3 DEF Idle
  <2>5. TypeOK'  BY <1>0, <2>1, <2>2, <2>3 DEF TypeOK
  <2>6. file' # Torn => Consistent(file')  BY <1>0, <2>1
  <2> QED  BY <2>4, <2>5, <2>6 DEF StoreInv, Consistent, Stored
<1>8. CASE UNCHANGED vars
  BY <1>0, <1>8 DEF StoreInv, TypeOK, Idle, vars, Consistent, Stored
<1> QED  BY <1>2, <1>3, <1>4, <1>5, <1>6, <1>7, <1>8 DEF Next

\* The file, the processes and the answers have their types.
THEOREM BridgeTypeOK == Spec => []TypeOK
<1>1. StoreInv => TypeOK  BY DEF StoreInv
<1> QED  BY <1>1, StoreInit, StoreStep, PTL DEF Spec

\* A file that parses is a store, whatever overlapped and whatever was torn.
THEOREM BridgeKeysResolve == Spec => []KeysResolve
<1>1. StoreInv => KeysResolve  BY DEF StoreInv, KeysResolve, Consistent
<1> QED  BY <1>1, StoreInit, StoreStep, PTL DEF Spec

-----------------------------------------------------------------------------
\* The content holds an answer: its item, and the key that leads to it.
Kept(a, data) ==
    /\ Stored(a.tool, a.id, data)
    /\ a.tool \in Replaying /\ a.key # NoKey =>
        data.bound[a.tool][a.key] = [id |-> a.id, about |-> a.about]

Holds(as, data) == \A a \in as : Kept(a, data)

\* While nothing has gone wrong: of a file f, processes hs and answers as.
Calm(f, hs, as) ==
    /\ \A g, h \in Hosts : hs[g].at # "idle" /\ hs[h].at # "idle" => g = h
    /\ f = Torn => \E h \in Hosts : hs[h].at = "truncated"
    /\ \A h \in Hosts : hs[h].at = "truncated" => f = Torn
    /\ f # Torn => Holds(as, f)
    /\ \A h \in Hosts : hs[h].at # "idle" =>
        Holds(as, hs[h].data) /\ Kept(AnswerOf(hs[h].request, hs[h].id), hs[h].data)

Undisturbed == Calm(file, host, answers)

KeepInv == StoreInv /\ (mishaps = {} => Undisturbed)

\* A request that is written neither meets nor moves a key that was answered.
LEMMA AddedKeeps ==
    ASSUME NEW r \in Request, NEW id \in Nat, NEW data \in Content,
           ~Conflicts(r, data), ~Known(r, data), NEW new, new = Added(r, id, data)
    PROVE  /\ \A a \in Answer : Kept(a, data) => Kept(a, new)
           /\ Kept(AnswerOf(r, id), new)
<1> DEFINE item == [tool |-> r.tool, id |-> id, about |-> r.about]
<1>1. /\ new.items = data.items \cup {item}
      /\ \A t \in Tools, k \in Keys :
           new.bound[t][k] = IF t = r.tool /\ k = r.key
                             THEN [id |-> id, about |-> r.about]
                             ELSE data.bound[t][k]
  BY AddedShape
<1>2. item.tool = r.tool /\ item.id = id  OBVIOUS
<1>3. r.tool \in Tools /\ r.key \in Keys \cup {NoKey}  BY DEF Request
<1> HIDE DEF item
<1>4. ASSUME NEW a \in Answer, Kept(a, data) PROVE Kept(a, new)
  <2>1. Stored(a.tool, a.id, new)
    BY <1>1, <1>4 DEF Kept, Stored
  <2>2. ASSUME a.tool \in Replaying, a.key # NoKey
        PROVE  new.bound[a.tool][a.key] = [id |-> a.id, about |-> a.about]
    <3>1. a.tool \in Tools /\ a.key \in Keys /\ a.id \in Nat /\ a.about \in Terms
      BY <2>2 DEF Answer
    <3>2. data.bound[a.tool][a.key] = [id |-> a.id, about |-> a.about]
          /\ Stored(a.tool, a.id, data)
      BY <1>4, <2>2 DEF Kept
    <3>3. ~(a.tool = r.tool /\ a.key = r.key)
      <4> SUFFICES ASSUME a.tool = r.tool, a.key = r.key PROVE FALSE
        OBVIOUS
      <4>1. [id |-> a.id, about |-> a.about] \in Binding  BY <3>1 DEF Binding
      <4>2. /\ Bound(r, data) /\ Prior(r, data) = [id |-> a.id, about |-> a.about]
        BY <2>2, <3>2, <4>1, MarkerAssumption DEF Bound, Prior
      <4>3. Prior(r, data).id = a.id  BY <4>2
      <4>4. Known(r, data)
        BY <2>2, <3>2, <4>2, <4>3 DEF Known, Stored
      <4> QED  BY <4>4
    <3> QED  BY <1>1, <3>1, <3>2, <3>3
  <2> QED  BY <2>1, <2>2 DEF Kept
<1>5. Kept(AnswerOf(r, id), new)
  <2>1. Stored(r.tool, id, new)  BY <1>1, <1>2 DEF Stored
  <2>2. r.key # NoKey => new.bound[r.tool][r.key] = [id |-> id, about |-> r.about]
    BY <1>1, <1>3
  <2> QED  BY <2>1, <2>2 DEF Kept, AnswerOf
<1> QED  BY <1>4, <1>5

\* What an upsert that starts without a mishap finds.
LEMMA AloneStart ==
    ASSUME KeepInv, NEW h \in Hosts, Begun(h), mishaps' = {}
    PROVE  /\ \A g \in Hosts : Idle(g)
           /\ file # Torn /\ Read = file /\ Holds(answers, file) /\ Undisturbed
<1>1. mishaps = {}  BY DEF Begun
<1>2. Undisturbed  BY <1>1 DEF KeepInv
<1>3. \A g \in Hosts : Idle(g)
  <2>1. ~\E g \in Hosts \ {h} : ~Idle(g)  BY DEF Begun
  <2> QED  BY <2>1 DEF Begun
<1>4. file # Torn  BY <1>2, <1>3 DEF Undisturbed, Calm, Idle
<1> QED  BY <1>2, <1>3, <1>4 DEF Undisturbed, Calm, Read

LEMMA KeepInit == Init => KeepInv
<1> SUFFICES ASSUME Init PROVE KeepInv
  OBVIOUS
<1>1. StoreInv  BY StoreInit
<1>2. \A h \in Hosts : Idle(h) /\ host[h].at # "truncated"
  BY DEF Init, Idle, Resting
<1>3. file # Torn
  BY EmptyIsStore, MarkerAssumption DEF Init
<1>4. Holds(answers, file)  BY DEF Holds, Init
<1> QED  BY <1>1, <1>2, <1>3, <1>4 DEF KeepInv, Undisturbed, Calm, Idle

LEMMA KeepStep == KeepInv /\ [Next]_vars => KeepInv'
<1> SUFFICES ASSUME KeepInv, [Next]_vars PROVE KeepInv'
  OBVIOUS
<1>0. StoreInv /\ StoreInv' /\ TypeOK /\ Read \in Content /\ calls \in Nat
      /\ answers \subseteq Answer
  BY StoreStep, ReadIsStore DEF KeepInv, StoreInv, TypeOK
<1> SUFFICES ASSUME mishaps' = {} PROVE Calm(file', host', answers')
  BY <1>0 DEF KeepInv, Undisturbed
<1>1. ASSUME NEW h \in Hosts, NEW r \in Request, Refuse(h, r)
      PROVE  Calm(file', host', answers')
  <2>1. file' = file /\ host' = host /\ answers' = answers  BY <1>1 DEF Refuse
  <2>2. Calm(file, host, answers)  BY <1>1, AloneStart DEF Refuse, Undisturbed
  <2> QED  BY <2>1, <2>2
<1>2. ASSUME NEW h \in Hosts, NEW r \in Request, Replay(h, r) PROVE Calm(file', host', answers')
  <2>1. /\ UNCHANGED <<file, host>> /\ ~Conflicts(r, Read) /\ Known(r, Read)
        /\ answers' = answers \cup {AnswerOf(r, Prior(r, Read).id)}
    BY <1>2 DEF Replay
  <2>2. (\A g \in Hosts : Idle(g)) /\ file # Torn /\ Read = file /\ Holds(answers, file)
    BY <1>2, AloneStart DEF Replay
  <2>3. Kept(AnswerOf(r, Prior(r, Read).id), file)
    <3>1. Bound(r, Read) /\ r.tool \in Replaying /\ Prior(r, Read).about = r.about
          /\ Stored(r.tool, Prior(r, Read).id, Read)
      BY <2>1 DEF Known, Conflicts, Stored
    <3>2. Prior(r, Read) \in Binding  BY <1>0, <3>1, BoundType
    <3>3. Prior(r, Read) = [id |-> Prior(r, Read).id, about |-> r.about]
      BY <3>1, <3>2 DEF Binding
    <3>4. Read.bound[r.tool][r.key] = [id |-> Prior(r, Read).id, about |-> r.about]
      BY <3>3 DEF Prior
    <3> QED  BY <2>2, <3>1, <3>4 DEF Kept, AnswerOf
  <2>4. \A a \in answers' : Kept(a, file')
    BY <2>1, <2>2, <2>3 DEF Holds
  <2>5. Holds(answers', file')  BY <2>4 DEF Holds
  <2> QED  BY <2>1, <2>2, <2>5 DEF Undisturbed, Calm, Idle
<1>3. ASSUME NEW h \in Hosts, NEW r \in Request, Prepare(h, r) PROVE Calm(file', host', answers')
  <2>1. /\ UNCHANGED <<file, answers>> /\ ~Conflicts(r, Read) /\ ~Known(r, Read)
    BY <1>3 DEF Prepare
  <2>2. (\A g \in Hosts : Idle(g)) /\ file # Torn /\ Read = file /\ Holds(answers, file)
    BY <1>3, AloneStart DEF Prepare
  <2>3. /\ host'[h].at = "write" /\ host'[h].data = Added(r, calls, Read)
        /\ host'[h].id = calls /\ host'[h].request = r
        /\ \A g \in Hosts \ {h} : host'[g] = host[g]
    BY <1>0, <1>3, PreparedHost
  <2>4. /\ \A a \in Answer : Kept(a, Read) => Kept(a, host'[h].data)
        /\ Kept(AnswerOf(r, calls), host'[h].data)
    BY <1>0, <2>1, <2>3, AddedKeeps
  <2>5. \A a \in answers' : Kept(a, host'[h].data)
    BY <1>0, <2>1, <2>2, <2>4 DEF Holds
  <2>6. \A g \in Hosts \ {h} : host'[g].at = "idle"
    BY <2>2, <2>3 DEF Idle
  <2>7. file' # Torn /\ \A a \in answers' : Kept(a, file')
    BY <2>1, <2>2 DEF Holds
  <2>8. Kept(AnswerOf(host'[h].request, host'[h].id), host'[h].data)
    BY <2>3, <2>4
  <2>9. \A g \in Hosts : host'[g].at # "truncated"
    BY <2>3, <2>6
  <2>10. \A g \in Hosts : host'[g].at # "idle" => g = h
    BY <2>6
  <2> QED  BY <2>5, <2>7, <2>8, <2>9, <2>10 DEF Calm, Holds
<1>4. ASSUME NEW h \in Hosts, Truncate(h) PROVE Calm(file', host', answers')
  <2>1. file' = Torn /\ answers' = answers /\ mishaps = {}  BY <1>4 DEF Truncate
  <2>2. Undisturbed  BY <2>1 DEF KeepInv
  <2>3. /\ ~Idle(h) /\ host'[h].at = "truncated" /\ host'[h].data = host[h].data
        /\ host'[h].id = host[h].id /\ host'[h].request = host[h].request
        /\ \A g \in Hosts \ {h} : host'[g] = host[g]
    BY <1>0, <1>4, TruncatedHost
  <2>4. \A g \in Hosts \ {h} : Idle(g) /\ host'[g].at = "idle"
    BY <2>2, <2>3 DEF Undisturbed, Calm, Idle
  <2>5. (\A a \in answers' : Kept(a, host'[h].data))
        /\ Kept(AnswerOf(host'[h].request, host'[h].id), host'[h].data)
    BY <2>1, <2>2, <2>3 DEF Undisturbed, Calm, Holds, Idle
  <2>6. \A g \in Hosts : host'[g].at # "idle" => g = h
    BY <2>4
  <2> QED  BY <2>1, <2>3, <2>5, <2>6 DEF Calm, Holds, Idle
<1>5. ASSUME NEW h \in Hosts, Fill(h) PROVE Calm(file', host', answers')
  <2>1. /\ host[h].at = "truncated" /\ mishaps = {}
        /\ host' = [host EXCEPT ![h] = Resting]
        /\ answers' = answers \cup {AnswerOf(host[h].request, host[h].id)}
    BY <1>5 DEF Fill
  <2>2. Undisturbed  BY <2>1 DEF KeepInv
  <2>3. file = Torn  BY <2>1, <2>2 DEF Undisturbed, Calm
  <2>4. file' = host[h].data  BY <1>5, <2>3 DEF Fill
  <2>5. ~Idle(h)  BY <2>1 DEF Idle
  <2>6. file' # Torn
    BY <1>0, <2>4, <2>5, BusyHost, MarkerAssumption
  <2>7. \A a \in answers' : Kept(a, file')
    BY <2>1, <2>2, <2>4, <2>5 DEF Undisturbed, Calm, Holds, Idle
  <2>8. host'[h].at = "idle" /\ \A g \in Hosts \ {h} : host'[g] = host[g]
    BY <1>0, <2>1, RestedHost
  <2>9. \A g \in Hosts : host'[g].at = "idle"
    BY <2>2, <2>5, <2>8 DEF Undisturbed, Calm, Idle
  <2> QED  BY <2>6, <2>7, <2>9 DEF Calm, Holds, Idle
<1>6. ASSUME NEW h \in Hosts, Crash(h) PROVE Calm(file', host', answers')
  <2>1. /\ UNCHANGED <<file, answers>> /\ mishaps = {} /\ ~Idle(h)
        /\ host' = [host EXCEPT ![h] = Resting] /\ host[h].at # "truncated"
    BY <1>6 DEF Crash
  <2>2. Undisturbed  BY <2>1 DEF KeepInv
  <2>3. host'[h].at = "idle" /\ \A g \in Hosts \ {h} : host'[g] = host[g]
    BY <1>0, <2>1, RestedHost
  <2>4. \A g \in Hosts : host'[g].at = "idle"
    BY <2>1, <2>2, <2>3 DEF Undisturbed, Calm, Idle
  <2>5. file # Torn
    <3>1. \A g \in Hosts : host[g].at # "truncated"
      BY <2>1, <2>2 DEF Undisturbed, Calm, Idle
    <3> QED  BY <2>2, <3>1 DEF Undisturbed, Calm
  <2>6. file' # Torn /\ \A a \in answers' : Kept(a, file')
    BY <2>1, <2>2, <2>5 DEF Undisturbed, Calm, Holds, Idle
  <2> QED  BY <2>4, <2>6 DEF Calm, Holds, Idle
<1>7. CASE UNCHANGED vars
  <2>1. /\ file' = file /\ host' = host /\ answers' = answers /\ mishaps = {}
    BY <1>7 DEF vars
  <2>2. Calm(file, host, answers)  BY <2>1 DEF KeepInv, Undisturbed
  <2> QED  BY <2>1, <2>2
<1> QED  BY <1>1, <1>2, <1>3, <1>4, <1>5, <1>6, <1>7 DEF Next

\* Nothing a tool returned is forgotten, unless upserts of two processes
\* overlapped or a rewrite was cut short.
THEOREM BridgeAnswersKept == Spec => []AnswersKept
<1>1. KeepInv => AnswersKept
  BY DEF KeepInv, Undisturbed, Calm, AnswersKept, Holds, Kept
<1> QED  BY <1>1, KeepInit, KeepStep, PTL DEF Spec

\* Under the same proviso a key has one answer.
THEOREM BridgeKeysAnswerOnce == Spec => []KeysAnswerOnce
<1>1. KeepInv => KeysAnswerOnce
  <2> SUFFICES ASSUME KeepInv, mishaps = {}, NEW a \in answers, NEW b \in answers,
                      a.tool \in Replaying, a.tool = b.tool, a.key = b.key, a.key # NoKey
      PROVE  a.id = b.id /\ a.about = b.about
    BY DEF KeysAnswerOnce
  <2>1. Undisturbed  BY DEF KeepInv
  <2>2. PICK data : Holds(answers, data)
    BY <2>1 DEF Undisturbed, Calm, Idle
  <2>3. [id |-> a.id, about |-> a.about] = [id |-> b.id, about |-> b.about]
    BY <2>2 DEF Holds, Kept
  <2> QED  BY <2>3
<1> QED  BY <1>1, KeepInit, KeepStep, PTL DEF Spec
=============================================================================
