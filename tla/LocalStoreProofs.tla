-------------------------- MODULE LocalStoreProofs --------------------------
(* Proofs about LocalStore, for any clients, keys and payloads: the two maps *)
(* implement a store that may forget, deadlines are kept, and Incr calls do  *)
(* not lose each other's increments.                                         *)
EXTENDS LocalStore, TLAPS

\* The default backend. Steps that need no arithmetic cite Zenon instead.
USE SMTT(60), Z3T(60)

\* Which operation is at which label, and what it has stored in its reply so far.
OpAt(op, l) ==
    CASE l \in {"load", "expiry"} -> op \in {"get", "decode"}
      [] l = "miss" -> op \in {"get", "decode", "expire"}
      [] l \in {"dropValue", "dropExpiry"} -> op \in {"get", "decode", "delete"}
      [] l \in {"probe", "store"} -> op = "set"
      [] l = "check" -> op = "expire"
      [] l = "deadline" -> op \in {"set", "expire"}
      [] l \in {"lock", "incrLoad", "incrStore", "unlock"} -> op = "incr"
      [] OTHER -> TRUE

AtLabel(c) ==
    /\ pc[c] = "idle" => call[c] = NoCall
    /\ pc[c] # "idle" => call[c] \in Inputs
    /\ OpAt(call[c].op, pc[c])
    /\ pc[c] = "probe" => call[c].val = Marker
    /\ pc[c] \notin {"unlock", "done"} => reply[c] = Absent
    /\ Phase(c) # "seen" => seen[c] = Absent

CallInv == \A c \in Clients : AtLabel(c)

Inv == TypeOK /\ CallInv

\* A call under way has a key and a Boolean for its expiration.
LEMMA CallTyped ==
    ASSUME Inv, NEW c \in Clients, pc[c] # "idle"
    PROVE  /\ Key(c) \in Keys /\ call[c].ttl \in BOOLEAN
           /\ call[c] \in Inputs
<1>1. call[c] \in Inputs
  BY DEF Inv, CallInv, AtLabel
<1> QED
  BY <1>1, Zenon DEF Inputs, Key

\* An operation goes from each of its labels to others of its labels.
LEMMA NextLabel ==
    ASSUME NEW op
    PROVE  /\ OpAt(op, "load") => OpAt(op, "miss") /\ OpAt(op, "expiry")
           /\ OpAt(op, "expiry") => OpAt(op, "dropValue")
           /\ OpAt(op, "dropValue") => OpAt(op, "dropExpiry")
           /\ OpAt(op, "probe") => OpAt(op, "store")
           /\ OpAt(op, "store") => OpAt(op, "deadline")
           /\ OpAt(op, "check") => OpAt(op, "miss") /\ OpAt(op, "deadline")
           /\ OpAt(op, "lock") => OpAt(op, "incrLoad")
           /\ OpAt(op, "incrLoad") => OpAt(op, "incrStore")
           /\ OpAt(op, "incrStore") => OpAt(op, "unlock")
           /\ OpAt(op, "done")
BY Zenon DEF OpAt

\* The operations of the labels whose phase depends on them.
LEMMA OpOfLabel ==
    ASSUME NEW op
    PROVE  /\ OpAt(op, "expiry") => op # "delete"
           /\ OpAt(op, "store") => op = "set"
           /\ OpAt(op, "check") => op # "set"
BY Zenon DEF OpAt

\* A call has loaded something in these places only.
SeenAt(l, op) ==
    \/ l \in {"miss", "expiry", "incrStore"}
    \/ l \in {"dropValue", "dropExpiry"} /\ op # "delete"
    \/ l = "deadline" /\ op # "set"

LEMMA PhaseSeen ==
    ASSUME NEW c, pc[c] \in Labels
    PROVE  Phase(c) = "seen" <=> SeenAt(pc[c], call[c].op)
BY Zenon DEF Phase, SeenAt, Labels

\* A call that goes on to a label of its operation.
LEMMA CallStep ==
    ASSUME Inv, TypeOK', NEW c \in Clients, NEW l \in Labels \ {"idle"}, pc[c] # "idle",
           Goto(c, l), call' = call, OpAt(call[c].op, l), l # "probe",
           \A d \in Clients \ {c} : reply'[d] = reply[d] /\ seen'[d] = seen[d],
           l \notin {"unlock", "done"} => reply'[c] = Absent,
           seen'[c] = Absent \/ SeenAt(l, call[c].op)
    PROVE  CallInv'
<1>1. pc'[c] = l /\ \A d \in Clients \ {c} : pc'[d] = pc[d]
  BY DEF Inv, TypeOK, Goto
<1>2. \A d \in Clients : pc[d] \in Labels /\ pc'[d] \in Labels
  BY DEF Inv, TypeOK
<1>3. \A d \in Clients : Phase(d)' = "seen" <=> SeenAt(pc'[d], call'[d].op)
  BY <1>2, ZenonT(60) DEF Phase, SeenAt, Labels
<1>4. ASSUME NEW d \in Clients \ {c}
      PROVE  AtLabel(d)'
  <2>1. Phase(d)' = "seen" <=> Phase(d) = "seen"
    BY <1>1, <1>2, <1>3, PhaseSeen, Zenon
  <2>2. AtLabel(d)
    BY Zenon DEF Inv, CallInv
  <2> QED
    BY <1>1, <2>1, <2>2, Zenon DEF AtLabel
<1>5. call[c] \in Inputs
  BY Zenon DEF Inv, CallInv, AtLabel
<1>6. AtLabel(c)'
  BY <1>1, <1>3, <1>5, Zenon DEF AtLabel
<1> QED
  BY <1>4, <1>6, Zenon DEF CallInv

\* A call that has loaded nothing yet, and one that has nothing to reply yet.
LEMMA NothingSeen ==
    ASSUME Inv, NEW c \in Clients
    PROVE  /\ SeenAt(pc[c], call[c].op) \/ seen[c] = Absent
           /\ pc[c] \notin {"unlock", "done"} => reply[c] = Absent
           /\ OpAt(call[c].op, pc[c])
<1>1. pc[c] \in Labels /\ AtLabel(c)
  BY DEF Inv, TypeOK, CallInv
<1> QED
  BY <1>1, PhaseSeen, Zenon DEF AtLabel

\* A call that leaves its labels with a reply.
LEMMA ReplyStep ==
    ASSUME Inv, TypeOK', NEW c \in Clients, NEW l \in {"unlock", "done"}, NEW r, pc[c] # "idle",
           Replies(c, l, r), call' = call, OpAt(call[c].op, l)
    PROVE  CallInv'
<1>1. seen'[c] = Absent /\ \A d \in Clients \ {c} : reply'[d] = reply[d] /\ seen'[d] = seen[d]
  BY DEF Inv, TypeOK, Replies
<1>2. Goto(c, l)
  BY Zenon DEF Replies
<1>3. l \in Labels \ {"idle"} /\ l # "probe"
  BY DEF Labels
<1> QED
  BY <1>1, <1>2, <1>3, CallStep, Zenon

\* A step that leaves the calls as they are.
LEMMA CallsLeft ==
    ASSUME Inv, UNCHANGED <<pc, call, seen, reply>>
    PROVE  CallInv'
BY ZenonT(60) DEF Inv, CallInv, AtLabel, Phase

\* Every step keeps the types and keeps each call at a label of its operation.
LEMMA InvPreserved == Inv /\ [Next]_vars => Inv'
<1> SUFFICES ASSUME Inv, [Next]_vars PROVE Inv'
  OBVIOUS
<1>0. TypeOK
  BY DEF Inv
<1>1. ASSUME NEW c \in Clients, Call(c) PROVE Inv'
  <2>1. PICK x \in Inputs : call' = [call EXCEPT ![c] = x] /\ Goto(c, First(x))
    BY <1>1, Zenon DEF Call
  <2>2. First(x) \in Labels \ {"idle", "unlock", "done"} /\ OpAt(x.op, First(x))
        /\ (First(x) = "probe" => x.val = Marker) /\ ~SeenAt(First(x), x.op)
    BY ZenonT(60) DEF Inputs, First, OpAt, SeenAt, Labels
  <2>3. /\ pc[c] = "idle" /\ reply' = reply /\ seen' = seen
        /\ UNCHANGED <<store, expiryStore, incrLock, cleaner, sweeping, dropping, timed, raced, steady>>
    BY <1>1, Zenon DEF Call, sweep, history
  <2>4. TypeOK'
    BY <1>0, <2>1, <2>2, <2>3 DEF TypeOK, Goto
  <2>5. /\ pc'[c] = First(x) /\ call'[c] = x
        /\ \A d \in Clients \ {c} : pc'[d] = pc[d] /\ call'[d] = call[d]
    BY <1>0, <2>1 DEF TypeOK, Goto
  <2>6. \A d \in Clients : AtLabel(d) /\ pc[d] \in Labels /\ pc'[d] \in Labels
    BY <2>4 DEF Inv, CallInv, TypeOK
  <2>7. \A d \in Clients : Phase(d)' = "seen" <=> SeenAt(pc'[d], call'[d].op)
    BY <2>6, ZenonT(60) DEF Phase, SeenAt, Labels
  <2>8. ASSUME NEW d \in Clients \ {c} PROVE AtLabel(d)'
    BY <2>3, <2>5, <2>6, <2>7, PhaseSeen, Zenon DEF AtLabel
  <2>9. AtLabel(c)'
    <3>1. reply[c] = Absent /\ seen[c] = Absent
      BY <2>3, NothingSeen DEF SeenAt
    <3> QED
      BY <2>2, <2>3, <2>5, <2>7, <3>1, Zenon DEF AtLabel
  <2> QED
    BY <2>4, <2>8, <2>9, Zenon DEF Inv, CallInv
<1>2. ASSUME NEW c \in Clients, Return(c) PROVE Inv'
  <2>1. /\ pc[c] = "done" /\ pc' = [pc EXCEPT ![c] = "idle"] /\ call' = [call EXCEPT ![c] = NoCall]
        /\ reply' = [reply EXCEPT ![c] = Absent] /\ seen' = seen
        /\ UNCHANGED <<store, expiryStore, incrLock, cleaner, sweeping, dropping, timed, raced, steady>>
    BY <1>2, Zenon DEF Return, Goto, sweep, history
  <2>2. TypeOK'
    BY <1>0, <2>1 DEF TypeOK, Labels
  <2>3. /\ pc'[c] = "idle" /\ call'[c] = NoCall /\ reply'[c] = Absent
        /\ \A d \in Clients \ {c} : pc'[d] = pc[d] /\ call'[d] = call[d] /\ reply'[d] = reply[d]
    BY <1>0, <2>1 DEF TypeOK
  <2>4. \A d \in Clients : AtLabel(d) /\ pc[d] \in Labels /\ pc'[d] \in Labels
    BY <2>2 DEF Inv, CallInv, TypeOK
  <2>5. \A d \in Clients : Phase(d)' = "seen" <=> SeenAt(pc'[d], call'[d].op)
    BY <2>4, ZenonT(60) DEF Phase, SeenAt, Labels
  <2>6. ASSUME NEW d \in Clients \ {c} PROVE AtLabel(d)'
    BY <2>1, <2>3, <2>4, <2>5, PhaseSeen, ZenonT(60) DEF AtLabel
  <2>7. AtLabel(c)'
    <3>1. seen[c] = Absent
      BY <2>1, NothingSeen DEF SeenAt
    <3>2. OpAt(NoCall.op, "idle")
      BY Zenon DEF OpAt
    <3> QED
      BY <2>1, <2>3, <3>1, <3>2, Zenon DEF AtLabel
  <2> QED
    BY <2>2, <2>6, <2>7, Zenon DEF Inv, CallInv
<1>3. ASSUME NEW c \in Clients, Load(c) PROVE Inv'
  <2>1. PICK l \in {"miss", "expiry"} : Goto(c, l)
    BY <1>3, Zenon DEF Load
  <2>2. pc[c] = "load" /\ pc[c] # "idle" /\ call' = call /\ reply' = reply
    BY <1>3, Zenon DEF Load
  <2>3. l \in Labels \ {"idle"} /\ l # "probe" /\ OpAt(call[c].op, l)
    BY <2>1, <2>2, NothingSeen, NextLabel, Zenon DEF Labels
  <2>4. TypeOK'
    BY <1>0, <1>3, <2>1, <2>2, <2>3, CallTyped DEF Load, TypeOK, Goto, sweep, history
  <2>5. \A d \in Clients \ {c} : seen'[d] = seen[d]
    BY <1>0, <1>3 DEF Load, TypeOK
  <2>6. l \notin {"unlock", "done"} => reply[c] = Absent
    BY <2>1, <2>2, NothingSeen, Zenon
  <2>7. seen'[c] = Absent \/ SeenAt(l, call[c].op)
    BY <2>1, <2>2, NothingSeen, OpOfLabel, Zenon DEF SeenAt
  <2> QED
    BY <2>1, <2>2, <2>3, <2>4, <2>5, <2>6, <2>7, CallStep, Zenon DEF Inv
<1>4. ASSUME NEW c \in Clients, Miss(c) PROVE Inv'
  <2>1. pc[c] = "miss" /\ pc[c] # "idle" /\ call' = call /\ Replies(c, "done", Absent)
    BY <1>4, Zenon DEF Miss
  <2>2. OpAt(call[c].op, "done")
    BY <2>1, NothingSeen, NextLabel, Zenon
  <2>3. TypeOK'
    BY <1>0, <1>4, <2>1, CallTyped DEF Miss, Replies, TypeOK, Goto, sweep, history, Labels
  <2> QED
    BY <2>1, <2>2, <2>3, ReplyStep, Zenon DEF Inv
<1>5. ASSUME NEW c \in Clients, Hit(c) PROVE Inv'
  <2>0. Decoded(call[c].op, seen[c]) \in Values \cup {Absent, Error}
    <3>1. call[c].op \in {"get", "decode"} /\ seen[c] \in Values \cup {Absent}
      BY <1>0, <1>5, NothingSeen DEF Hit, OpAt, TypeOK
    <3> QED
      BY <3>1, Zenon DEF Decoded, Values
  <2>1. pc[c] = "expiry" /\ pc[c] # "idle" /\ call' = call /\ Replies(c, "done", Decoded(call[c].op, seen[c]))
    BY <1>5, Zenon DEF Hit
  <2>2. OpAt(call[c].op, "done")
    BY <2>1, NothingSeen, NextLabel, Zenon
  <2>3. TypeOK'
    BY <1>0, <1>5, <2>1, CallTyped, <2>0 DEF Hit, Replies, TypeOK, Goto, sweep, history, Labels
  <2> QED
    BY <2>1, <2>2, <2>3, ReplyStep, Zenon DEF Inv
<1>6. ASSUME NEW c \in Clients, Expired(c) PROVE Inv'
  <2>1. PICK l \in {"dropValue"} : Goto(c, l)
    BY <1>6, Zenon DEF Expired
  <2>2. pc[c] = "expiry" /\ pc[c] # "idle" /\ call' = call /\ reply' = reply /\ seen' = seen
    BY <1>6, Zenon DEF Expired
  <2>3. l \in Labels \ {"idle"} /\ l # "probe" /\ OpAt(call[c].op, l)
    BY <2>1, <2>2, NothingSeen, NextLabel, Zenon DEF Labels
  <2>4. TypeOK'
    BY <1>0, <1>6, <2>1, <2>2, <2>3, CallTyped DEF Expired, TypeOK, Goto, sweep, history
  <2>6. l \notin {"unlock", "done"} => reply[c] = Absent
    BY <2>1, <2>2, NothingSeen, Zenon
  <2>7. seen'[c] = Absent \/ SeenAt(l, call[c].op)
    BY <2>1, <2>2, NothingSeen, OpOfLabel, Zenon DEF SeenAt
  <2> QED
    BY <2>1, <2>2, <2>3, <2>4, <2>6, <2>7, CallStep, Zenon DEF Inv
<1>7. ASSUME NEW c \in Clients, DropValue(c) PROVE Inv'
  <2>1. PICK l \in {"dropExpiry"} : Goto(c, l)
    BY <1>7, Zenon DEF DropValue
  <2>2. pc[c] = "dropValue" /\ pc[c] # "idle" /\ call' = call /\ reply' = reply /\ seen' = seen
    BY <1>7, Zenon DEF DropValue
  <2>3. l \in Labels \ {"idle"} /\ l # "probe" /\ OpAt(call[c].op, l)
    BY <2>1, <2>2, NothingSeen, NextLabel, Zenon DEF Labels
  <2>4. TypeOK'
    <3>1. steady' \in [Clients -> BOOLEAN]
      BY <1>7, Zenon DEF DropValue, Disturb
    <3>2. /\ store' = [store EXCEPT ![Key(c)] = Absent] /\ expiryStore' = expiryStore
          /\ timed' = [timed EXCEPT ![Key(c)] = FALSE] /\ raced' = [raced EXCEPT ![Key(c)] = FALSE]
          /\ UNCHANGED <<incrLock, cleaner, sweeping, dropping>>
      BY <1>7, Zenon DEF DropValue, sweep
    <3>3. Key(c) \in Keys
      BY <2>2, CallTyped
    <3>4. store' \in [Keys -> Values \cup {Absent}]
          /\ timed' \in [Keys -> BOOLEAN] /\ raced' \in [Keys -> BOOLEAN]
      BY <1>0, <3>2, <3>3 DEF TypeOK
    <3>5. pc' \in [Clients -> Labels]
      BY <1>0, <2>1, <2>3 DEF TypeOK, Goto
    <3> QED
      BY <1>0, <2>2, <3>1, <3>2, <3>4, <3>5, Zenon DEF TypeOK
  <2>6. l \notin {"unlock", "done"} => reply[c] = Absent
    BY <2>1, <2>2, NothingSeen, Zenon
  <2>7. seen'[c] = Absent \/ SeenAt(l, call[c].op)
    BY <2>1, <2>2, NothingSeen, OpOfLabel, Zenon DEF SeenAt
  <2> QED
    BY <2>1, <2>2, <2>3, <2>4, <2>6, <2>7, CallStep, Zenon DEF Inv
<1>8. ASSUME NEW c \in Clients, DropExpiry(c) PROVE Inv'
  <2>1. pc[c] = "dropExpiry" /\ pc[c] # "idle" /\ call' = call /\ Replies(c, "done", Absent)
    BY <1>8, Zenon DEF DropExpiry
  <2>2. OpAt(call[c].op, "done")
    BY <2>1, NothingSeen, NextLabel, Zenon
  <2>3. TypeOK'
    BY <1>0, <1>8, <2>1, CallTyped DEF DropExpiry, Replies, TypeOK, Goto, sweep, history, Labels
  <2> QED
    BY <2>1, <2>2, <2>3, ReplyStep, Zenon DEF Inv
<1>9. ASSUME NEW c \in Clients, Probe(c) PROVE Inv'
  <2>1. PICK l \in {"done", "store"} : Goto(c, l)
    BY <1>9, Zenon DEF Probe
  <2>2. pc[c] = "probe" /\ pc[c] # "idle" /\ call' = call /\ reply' = reply /\ seen' = seen
    BY <1>9, Zenon DEF Probe
  <2>3. l \in Labels \ {"idle"} /\ l # "probe" /\ OpAt(call[c].op, l)
    BY <2>1, <2>2, NothingSeen, NextLabel, Zenon DEF Labels
  <2>4. TypeOK'
    BY <1>0, <1>9, <2>1, <2>2, <2>3, CallTyped DEF Probe, TypeOK, Goto, sweep, history
  <2>6. l \notin {"unlock", "done"} => reply[c] = Absent
    BY <2>1, <2>2, NothingSeen, Zenon
  <2>7. seen'[c] = Absent \/ SeenAt(l, call[c].op)
    BY <2>1, <2>2, NothingSeen, OpOfLabel, Zenon DEF SeenAt
  <2> QED
    BY <2>1, <2>2, <2>3, <2>4, <2>6, <2>7, CallStep, Zenon DEF Inv
<1>10. ASSUME NEW c \in Clients, StoreValue(c) PROVE Inv'
  <2>1. PICK l \in {"deadline"} : Goto(c, l)
    BY <1>10, Zenon DEF StoreValue
  <2>2. pc[c] = "store" /\ pc[c] # "idle" /\ call' = call /\ reply' = reply /\ seen' = seen
    BY <1>10, Zenon DEF StoreValue
  <2>3. l \in Labels \ {"idle"} /\ l # "probe" /\ OpAt(call[c].op, l)
    BY <2>1, <2>2, NothingSeen, NextLabel, Zenon DEF Labels
  <2>4. TypeOK'
    <3>1. call[c] \in Inputs /\ call[c].op = "set" /\ Key(c) \in Keys /\ call[c].ttl \in BOOLEAN
      BY <2>2, CallTyped, NothingSeen, OpOfLabel, Zenon
    <3>2. call[c].val \in Values
      BY <3>1, Zenon DEF Inputs, Values, Strings
    <3>3. steady' \in [Clients -> BOOLEAN]
      BY <1>10, Zenon DEF StoreValue, Disturb
    <3>4. PICK overlapped \in BOOLEAN : overlapped = (call[c].ttl /\ Overlapped(c, Key(c)))
      BY <3>1, Zenon
    <3>5. raced' = [raced EXCEPT ![Key(c)] = overlapped]
      BY <1>10, <3>4, Zenon DEF StoreValue
    <3>6. /\ store' = [store EXCEPT ![Key(c)] = call[c].val] /\ expiryStore' = expiryStore
          /\ timed' = [timed EXCEPT ![Key(c)] = call[c].ttl]
          /\ UNCHANGED <<incrLock, cleaner, sweeping, dropping>>
      BY <1>10, Zenon DEF StoreValue, sweep
    <3>7. store' \in [Keys -> Values \cup {Absent}]
          /\ timed' \in [Keys -> BOOLEAN] /\ raced' \in [Keys -> BOOLEAN]
      BY <1>0, <3>1, <3>2, <3>5, <3>6 DEF TypeOK
    <3>8. pc' \in [Clients -> Labels]
      BY <1>0, <2>1, <2>3 DEF TypeOK, Goto
    <3> QED
      BY <1>0, <2>2, <3>3, <3>6, <3>7, <3>8, Zenon DEF TypeOK
  <2>6. l \notin {"unlock", "done"} => reply[c] = Absent
    BY <2>1, <2>2, NothingSeen, Zenon
  <2>7. seen'[c] = Absent \/ SeenAt(l, call[c].op)
    BY <2>1, <2>2, NothingSeen, OpOfLabel, Zenon DEF SeenAt
  <2> QED
    BY <2>1, <2>2, <2>3, <2>4, <2>6, <2>7, CallStep, Zenon DEF Inv
<1>11. ASSUME NEW c \in Clients, Check(c) PROVE Inv'
  <2>1. PICK l \in {"miss", "deadline"} : Goto(c, l)
    BY <1>11, Zenon DEF Check
  <2>2. pc[c] = "check" /\ pc[c] # "idle" /\ call' = call /\ reply' = reply
    BY <1>11, Zenon DEF Check
  <2>3. l \in Labels \ {"idle"} /\ l # "probe" /\ OpAt(call[c].op, l)
    BY <2>1, <2>2, NothingSeen, NextLabel, Zenon DEF Labels
  <2>4. TypeOK'
    BY <1>0, <1>11, <2>1, <2>2, <2>3, CallTyped DEF Check, TypeOK, Goto, sweep, history
  <2>5. \A d \in Clients \ {c} : seen'[d] = seen[d]
    BY <1>0, <1>11 DEF Check, TypeOK
  <2>6. l \notin {"unlock", "done"} => reply[c] = Absent
    BY <2>1, <2>2, NothingSeen, Zenon
  <2>7. seen'[c] = Absent \/ SeenAt(l, call[c].op)
    BY <2>1, <2>2, NothingSeen, OpOfLabel, Zenon DEF SeenAt
  <2> QED
    BY <2>1, <2>2, <2>3, <2>4, <2>5, <2>6, <2>7, CallStep, Zenon DEF Inv
<1>12. ASSUME NEW c \in Clients, StoreDeadline(c) PROVE Inv'
  <2>1. pc[c] = "deadline" /\ pc[c] # "idle" /\ call' = call /\ Replies(c, "done", Absent)
    BY <1>12, Zenon DEF StoreDeadline
  <2>2. OpAt(call[c].op, "done")
    BY <2>1, NothingSeen, NextLabel, Zenon
  <2>3. TypeOK'
    <3>1. call[c] \in Inputs /\ Key(c) \in Keys /\ call[c].ttl \in BOOLEAN
      BY <2>1, CallTyped
    <3>2. timed' \in [Keys -> BOOLEAN] /\ raced' \in [Keys -> BOOLEAN]
      <4>1. PICK live \in BOOLEAN, seized \in BOOLEAN :
              /\ live = (call[c].ttl /\ store[Key(c)] # Absent)
              /\ seized = (call[c].ttl /\ store[Key(c)] # Absent /\ (raced[Key(c)] \/ Overlapped(c, Key(c))))
        BY <3>1, Zenon DEF Overlapped
      <4>2. /\ timed' = [timed EXCEPT ![Key(c)] = IF call[c].op = "expire" THEN live ELSE @]
            /\ raced' = [raced EXCEPT ![Key(c)] = IF call[c].op = "expire" THEN seized ELSE @]
        BY <1>12, <4>1, Zenon DEF StoreDeadline
      <4> QED
        BY <1>0, <3>1, <4>2 DEF TypeOK
    <3> QED
      BY <1>0, <1>12, <2>1, <3>1, <3>2 DEF StoreDeadline, Replies, TypeOK, Goto, Labels
  <2> QED
    BY <2>1, <2>2, <2>3, ReplyStep, Zenon DEF Inv
<1>13. ASSUME NEW c \in Clients, Lock(c) PROVE Inv'
  <2>1. PICK l \in {"incrLoad"} : Goto(c, l)
    BY <1>13, Zenon DEF Lock
  <2>2. pc[c] = "lock" /\ pc[c] # "idle" /\ call' = call /\ reply' = reply /\ seen' = seen
    BY <1>13, Zenon DEF Lock
  <2>3. l \in Labels \ {"idle"} /\ l # "probe" /\ OpAt(call[c].op, l)
    BY <2>1, <2>2, NothingSeen, NextLabel, Zenon DEF Labels
  <2>4. TypeOK'
    BY <1>0, <1>13, <2>1, <2>2, <2>3, CallTyped DEF Lock, TypeOK, Goto, sweep, history
  <2>6. l \notin {"unlock", "done"} => reply[c] = Absent
    BY <2>1, <2>2, NothingSeen, Zenon
  <2>7. seen'[c] = Absent \/ SeenAt(l, call[c].op)
    BY <2>1, <2>2, NothingSeen, OpOfLabel, Zenon DEF SeenAt
  <2> QED
    BY <2>1, <2>2, <2>3, <2>4, <2>6, <2>7, CallStep, Zenon DEF Inv
<1>14. ASSUME NEW c \in Clients, LockCancelled(c) PROVE Inv'
  <2>1. pc[c] = "lock" /\ pc[c] # "idle" /\ call' = call /\ Replies(c, "done", Error)
    BY <1>14, Zenon DEF LockCancelled
  <2>2. OpAt(call[c].op, "done")
    BY <2>1, NothingSeen, NextLabel, Zenon
  <2>3. TypeOK'
    BY <1>0, <1>14, <2>1, CallTyped DEF LockCancelled, Replies, TypeOK, Goto, sweep, history, Labels
  <2> QED
    BY <2>1, <2>2, <2>3, ReplyStep, Zenon DEF Inv
<1>15. ASSUME NEW c \in Clients, IncrLoad(c) PROVE Inv'
  <2>1. PICK l \in {"incrStore"} : Goto(c, l)
    BY <1>15, Zenon DEF IncrLoad
  <2>2. pc[c] = "incrLoad" /\ pc[c] # "idle" /\ call' = call /\ reply' = reply
    BY <1>15, Zenon DEF IncrLoad
  <2>3. l \in Labels \ {"idle"} /\ l # "probe" /\ OpAt(call[c].op, l)
    BY <2>1, <2>2, NothingSeen, NextLabel, Zenon DEF Labels
  <2>4. TypeOK'
    BY <1>0, <1>15, <2>1, <2>2, <2>3, CallTyped DEF IncrLoad, TypeOK, Goto, sweep, history
  <2>5. \A d \in Clients \ {c} : seen'[d] = seen[d]
    BY <1>0, <1>15 DEF IncrLoad, TypeOK
  <2>6. l \notin {"unlock", "done"} => reply[c] = Absent
    BY <2>1, <2>2, NothingSeen, Zenon
  <2>7. seen'[c] = Absent \/ SeenAt(l, call[c].op)
    BY <2>1, <2>2, NothingSeen, OpOfLabel, Zenon DEF SeenAt
  <2> QED
    BY <2>1, <2>2, <2>3, <2>4, <2>5, <2>6, <2>7, CallStep, Zenon DEF Inv
<1>16. ASSUME NEW c \in Clients, IncrStore(c) PROVE Inv'
  <2>1. pc[c] = "incrStore" /\ pc[c] # "idle" /\ call' = call /\ Replies(c, "unlock", Successor(seen[c]))
    BY <1>16, Zenon DEF IncrStore
  <2>2. OpAt(call[c].op, "unlock")
    BY <2>1, NothingSeen, NextLabel, Zenon
  <2>3. TypeOK'
    <3>1. Successor(seen[c]) \in Values
      BY DEF Successor, Values, Strings
    <3>2. Key(c) \in Keys
      BY <2>1, CallTyped
    <3>3. PICK live \in BOOLEAN : live = (timed[Key(c)] /\ store[Key(c)] # Absent)
      BY <1>0, <3>2, Zenon DEF TypeOK
    <3>4. timed' = [timed EXCEPT ![Key(c)] = live]
      BY <1>16, <3>3, Zenon DEF IncrStore
    <3> QED
      BY <1>0, <1>16, <2>1, <3>1, <3>2, <3>4 DEF IncrStore, Replies, TypeOK, Goto, sweep, Labels
  <2> QED
    BY <2>1, <2>2, <2>3, ReplyStep, Zenon DEF Inv
<1>17. ASSUME NEW c \in Clients, Unlock(c) PROVE Inv'
  <2>1. PICK l \in {"done"} : Goto(c, l)
    BY <1>17, Zenon DEF Unlock
  <2>2. pc[c] = "unlock" /\ pc[c] # "idle" /\ call' = call /\ reply' = reply /\ seen' = seen
    BY <1>17, Zenon DEF Unlock
  <2>3. l \in Labels \ {"idle"} /\ l # "probe" /\ OpAt(call[c].op, l)
    BY <2>1, <2>2, NothingSeen, NextLabel, Zenon DEF Labels
  <2>4. TypeOK'
    BY <1>0, <1>17, <2>1, <2>2, <2>3, CallTyped DEF Unlock, TypeOK, Goto, sweep, history
  <2>6. l \notin {"unlock", "done"} => reply[c] = Absent
    BY <2>1, <2>2, NothingSeen, Zenon
  <2>7. seen'[c] = Absent \/ SeenAt(l, call[c].op)
    BY <2>1, <2>2, NothingSeen, OpOfLabel, Zenon DEF SeenAt
  <2> QED
    BY <2>1, <2>2, <2>3, <2>4, <2>6, <2>7, CallStep, Zenon DEF Inv
<1>18. ASSUME NEW c \in Clients, UnlockCancelled(c) PROVE Inv'
  <2>1. PICK l \in {"done"} : Goto(c, l)
    BY <1>18, Zenon DEF UnlockCancelled
  <2>2. pc[c] = "unlock" /\ pc[c] # "idle" /\ call' = call /\ reply' = reply /\ seen' = seen
    BY <1>18, Zenon DEF UnlockCancelled
  <2>3. l \in Labels \ {"idle"} /\ l # "probe" /\ OpAt(call[c].op, l)
    BY <2>1, <2>2, NothingSeen, NextLabel, Zenon DEF Labels
  <2>4. TypeOK'
    BY <1>0, <1>18, <2>1, <2>2, <2>3, CallTyped DEF UnlockCancelled, TypeOK, Goto, sweep, history
  <2>6. l \notin {"unlock", "done"} => reply[c] = Absent
    BY <2>1, <2>2, NothingSeen, Zenon
  <2>7. seen'[c] = Absent \/ SeenAt(l, call[c].op)
    BY <2>1, <2>2, NothingSeen, OpOfLabel, Zenon DEF SeenAt
  <2> QED
    BY <2>1, <2>2, <2>3, <2>4, <2>6, <2>7, CallStep, Zenon DEF Inv
<1>19. ASSUME NEW k \in Keys, Pass(k) PROVE Inv'
  <2>1. CallInv'
    BY <1>19, CallsLeft, Zenon DEF Pass
  <2>3. TypeOK'
    BY <1>0, <1>19 DEF Pass, TypeOK, sweep, history
  <2> QED
    BY <2>1, <2>3, Zenon DEF Inv
<1>20. ASSUME NEW k \in Keys, SweepValue(k) PROVE Inv'
  <2>1. CallInv'
    BY <1>20, CallsLeft, Zenon DEF SweepValue
  <2>2. steady' \in [Clients -> BOOLEAN]
    BY <1>20, Zenon DEF SweepValue
  <2>3. TypeOK'
    BY <1>0, <1>20, <2>2 DEF SweepValue, TypeOK, sweep, history
  <2> QED
    BY <2>1, <2>3, Zenon DEF Inv
<1>21. ASSUME Collect PROVE Inv'
  <2>1. CallInv'
    BY <1>21, CallsLeft, Zenon DEF Collect
  <2>3. TypeOK'
    BY <1>0, <1>21 DEF Collect, TypeOK, sweep, history
  <2> QED
    BY <2>1, <2>3, Zenon DEF Inv
<1>22. ASSUME SweepExpiry PROVE Inv'
  <2>1. CallInv'
    BY <1>22, CallsLeft, Zenon DEF SweepExpiry
  <2>3. TypeOK'
    BY <1>0, <1>22 DEF SweepExpiry, TypeOK, sweep, history
  <2> QED
    BY <2>1, <2>3, Zenon DEF Inv
<1>23. ASSUME UNCHANGED vars PROVE Inv'
  <2>1. CallInv'
    BY <1>23, CallsLeft, Zenon DEF vars
  <2>3. TypeOK'
    BY <1>0, <1>23 DEF vars, TypeOK, sweep, history
  <2> QED
    BY <2>1, <2>3, Zenon DEF Inv
<1> QED
  BY <1>1, <1>2, <1>3, <1>4, <1>5, <1>6, <1>7, <1>8, <1>9, <1>10, <1>11, <1>12, <1>13, <1>14, <1>15, <1>16, <1>17, <1>18, <1>19, <1>20, <1>21, <1>22, <1>23, Zenon DEF Next, Step

\* Types and labels hold throughout.
LEMMA InvHolds == Spec => []Inv
<1>1. Init => Inv
  <2> SUFFICES ASSUME Init PROVE Inv
    OBVIOUS
  <2>1. cleaner \in BOOLEAN /\ timed \in [Keys -> BOOLEAN] /\ raced \in [Keys -> BOOLEAN]
        /\ steady \in [Clients -> BOOLEAN]
    BY Zenon DEF Init
  <2>2. TypeOK
    BY <2>1 DEF Init, TypeOK, Labels
  <2>3. CallInv
    BY Zenon DEF Init, CallInv, AtLabel, OpAt, Phase, NoCall
  <2> QED
    BY <2>2, <2>3 DEF Inv
<1> QED
  BY <1>1, InvPreserved, PTL DEF Spec

\* Whatever the interleaving, the maps, the calls and the cleanup keep their types.
THEOREM TypeCorrect == Spec => []TypeOK
<1>1. Inv => TypeOK
  BY DEF Inv
<1> QED
  BY <1>1, InvHolds, PTL

-----------------------------------------------------------------------------

\* The strengthening of DeadlineKept: a removal that is half done has removed
\* the value it found, so a value that is there and is to have a deadline was
\* stored since, and is marked as raced.
DeadlineInv ==
    /\ DeadlineKept
    /\ \A k \in Keys : store[k] # Absent /\ timed[k] /\ ~raced[k] =>
           dropping # k /\ \A c \in Clients : ~Pending(c, k)

\* Every step keeps the deadlines.
LEMMA DeadlinePreserved == Inv /\ DeadlineInv /\ [Next]_vars => DeadlineInv'
<1> SUFFICES ASSUME Inv, DeadlineInv, [Next]_vars PROVE DeadlineInv'
  OBVIOUS
<1> USE DEF Inv, TypeOK, DeadlineInv, DeadlineKept, Setting, Pending, Goto, Key, sweep, history
<1>1. ASSUME NEW c \in Clients, Call(c) PROVE DeadlineInv'
  BY <1>1, CallTyped DEF Call, First
<1>2. ASSUME NEW c \in Clients, Return(c) PROVE DeadlineInv'
  BY <1>2, CallTyped DEF Return
<1>3. ASSUME NEW c \in Clients, Load(c) PROVE DeadlineInv'
  BY <1>3, CallTyped DEF Load
<1>4. ASSUME NEW c \in Clients, Miss(c) PROVE DeadlineInv'
  BY <1>4, CallTyped, Zenon DEF Miss, Replies
<1>5. ASSUME NEW c \in Clients, Hit(c) PROVE DeadlineInv'
  BY <1>5, CallTyped DEF Hit, Replies
<1>6. ASSUME NEW c \in Clients, Expired(c) PROVE DeadlineInv'
  BY <1>6, CallTyped, Zenon DEF Expired
<1>7. ASSUME NEW c \in Clients, DropValue(c) PROVE DeadlineInv'
  BY <1>7, CallTyped DEF DropValue, Disturb
<1>8. ASSUME NEW c \in Clients, DropExpiry(c) PROVE DeadlineInv'
  BY <1>8, CallTyped DEF DropExpiry, Replies
<1>9. ASSUME NEW c \in Clients, Probe(c) PROVE DeadlineInv'
  BY <1>9, CallTyped, Zenon DEF Probe
<1>10. ASSUME NEW c \in Clients, StoreValue(c) PROVE DeadlineInv'
  BY <1>10, CallTyped DEF StoreValue, Disturb, Overlapped
<1>11. ASSUME NEW c \in Clients, Check(c) PROVE DeadlineInv'
  <2>1. call[c].op = "expire" /\ Key(c) \in Keys
    BY <1>11, CallTyped, Zenon DEF Check, CallInv, AtLabel, OpAt
  <2> QED
    BY <1>11, <2>1, Zenon DEF Check
<1>12. ASSUME NEW c \in Clients, StoreDeadline(c) PROVE DeadlineInv'
  <2>1. call[c].op \in {"set", "expire"} /\ Key(c) \in Keys /\ call[c].ttl \in BOOLEAN
    BY <1>12, CallTyped, Zenon DEF StoreDeadline, CallInv, AtLabel, OpAt
  <2>2. CASE call[c].op = "set"
    BY <1>12, <2>1, <2>2 DEF StoreDeadline, Replies
  <2>3. CASE call[c].op = "expire"
    BY <1>12, <2>1, <2>3 DEF StoreDeadline, Overlapped, Replies
  <2> QED
    BY <2>1, <2>2, <2>3, Zenon
<1>13. ASSUME NEW c \in Clients, Lock(c) PROVE DeadlineInv'
  BY <1>13, CallTyped, Zenon DEF Lock
<1>14. ASSUME NEW c \in Clients, LockCancelled(c) PROVE DeadlineInv'
  BY <1>14, CallTyped, Zenon DEF LockCancelled, Replies
<1>15. ASSUME NEW c \in Clients, IncrLoad(c) PROVE DeadlineInv'
  BY <1>15, CallTyped, Zenon DEF IncrLoad
<1>16. ASSUME NEW c \in Clients, IncrStore(c) PROVE DeadlineInv'
  BY <1>16, CallTyped DEF IncrStore, Replies
<1>17. ASSUME NEW c \in Clients, Unlock(c) PROVE DeadlineInv'
  BY <1>17, CallTyped DEF Unlock
<1>18. ASSUME NEW c \in Clients, UnlockCancelled(c) PROVE DeadlineInv'
  BY <1>18, CallTyped, Zenon DEF UnlockCancelled
<1>19. ASSUME NEW k \in Keys, Pass(k) PROVE DeadlineInv'
  BY <1>19, StoreAssumption DEF Pass
<1>20. ASSUME NEW k \in Keys, SweepValue(k) PROVE DeadlineInv'
  BY <1>20, StoreAssumption DEF SweepValue
<1>21. ASSUME Collect PROVE DeadlineInv'
  BY <1>21, StoreAssumption DEF Collect
<1>22. ASSUME SweepExpiry PROVE DeadlineInv'
  BY <1>22, StoreAssumption DEF SweepExpiry
<1>23. ASSUME UNCHANGED vars PROVE DeadlineInv'
  BY <1>23, StoreAssumption DEF vars
<1> QED
  BY <1>1, <1>2, <1>3, <1>4, <1>5, <1>6, <1>7, <1>8, <1>9, <1>10, <1>11, <1>12, <1>13, <1>14, <1>15, <1>16, <1>17, <1>18, <1>19, <1>20, <1>21, <1>22, <1>23, Zenon DEF Next, Step

\* For any number of calls: a value stored with an expiration has a deadline once
\* its Set is over, unless a removal of the key was half done when it was stored.
THEOREM DeadlinesKept == Spec => []DeadlineKept
<1>1. Init => DeadlineInv
  BY DEF Init, DeadlineInv, DeadlineKept
<1>2. DeadlineInv => DeadlineKept
  BY DEF DeadlineInv
<1> QED
  BY <1>1, <1>2, DeadlinePreserved, InvHolds, PTL DEF Spec

-----------------------------------------------------------------------------

Counting(c) == pc[c] \in {"incrLoad", "incrStore", "unlock"}

\* The strengthening of NoLostIncrement: the lock of a key admits one Incr at a
\* time, whether or not an earlier one failed to release it.
IncrInv ==
    /\ NoLostIncrement
    /\ \A c \in Clients : Counting(c) => Key(c) \in incrLock
    /\ \A c, d \in Clients : Counting(c) /\ Counting(d) /\ Key(c) = Key(d) => c = d

\* Every step keeps the increments exclusive.
LEMMA IncrPreserved == Inv /\ IncrInv /\ [Next]_vars => IncrInv'
<1> SUFFICES ASSUME Inv, IncrInv, [Next]_vars PROVE IncrInv'
  OBVIOUS
<1> USE DEF Inv, TypeOK, IncrInv, NoLostIncrement, Counting, Goto, Key, sweep, history
<1>1. ASSUME NEW c \in Clients, Call(c) PROVE IncrInv'
  BY <1>1, CallTyped DEF Call, First
<1>2. ASSUME NEW c \in Clients, Return(c) PROVE IncrInv'
  BY <1>2, CallTyped DEF Return
<1>3. ASSUME NEW c \in Clients, Load(c) PROVE IncrInv'
  BY <1>3, CallTyped DEF Load
<1>4. ASSUME NEW c \in Clients, Miss(c) PROVE IncrInv'
  BY <1>4, CallTyped, ZenonT(60) DEF Miss, Replies
<1>5. ASSUME NEW c \in Clients, Hit(c) PROVE IncrInv'
  BY <1>5, CallTyped DEF Hit, Replies
<1>6. ASSUME NEW c \in Clients, Expired(c) PROVE IncrInv'
  BY <1>6, CallTyped, ZenonT(60) DEF Expired
<1>7. ASSUME NEW c \in Clients, DropValue(c) PROVE IncrInv'
  BY <1>7, CallTyped, ZenonT(60) DEF DropValue, Disturb
<1>8. ASSUME NEW c \in Clients, DropExpiry(c) PROVE IncrInv'
  BY <1>8, CallTyped, ZenonT(60) DEF DropExpiry, Replies
<1>9. ASSUME NEW c \in Clients, Probe(c) PROVE IncrInv'
  BY <1>9, CallTyped DEF Probe
<1>10. ASSUME NEW c \in Clients, StoreValue(c) PROVE IncrInv'
  BY <1>10, CallTyped, ZenonT(60) DEF StoreValue, Disturb
<1>11. ASSUME NEW c \in Clients, Check(c) PROVE IncrInv'
  BY <1>11, CallTyped DEF Check
<1>12. ASSUME NEW c \in Clients, StoreDeadline(c) PROVE IncrInv'
  BY <1>12, CallTyped DEF StoreDeadline, Replies
<1>13. ASSUME NEW c \in Clients, Lock(c) PROVE IncrInv'
  BY <1>13, CallTyped DEF Lock
<1>14. ASSUME NEW c \in Clients, LockCancelled(c) PROVE IncrInv'
  BY <1>14, CallTyped, Zenon DEF LockCancelled, Replies
<1>15. ASSUME NEW c \in Clients, IncrLoad(c) PROVE IncrInv'
  BY <1>15, CallTyped DEF IncrLoad
<1>16. ASSUME NEW c \in Clients, IncrStore(c) PROVE IncrInv'
  BY <1>16, CallTyped DEF IncrStore, Replies
<1>17. ASSUME NEW c \in Clients, Unlock(c) PROVE IncrInv'
  BY <1>17, CallTyped, ZenonT(60) DEF Unlock
<1>18. ASSUME NEW c \in Clients, UnlockCancelled(c) PROVE IncrInv'
  BY <1>18, CallTyped DEF UnlockCancelled
<1>19. ASSUME NEW k \in Keys, Pass(k) PROVE IncrInv'
  BY <1>19, Zenon DEF Pass
<1>20. ASSUME NEW k \in Keys, SweepValue(k) PROVE IncrInv'
  BY <1>20, Zenon DEF SweepValue
<1>21. ASSUME Collect PROVE IncrInv'
  BY <1>21, Zenon DEF Collect
<1>22. ASSUME SweepExpiry PROVE IncrInv'
  BY <1>22, Zenon DEF SweepExpiry
<1>23. ASSUME UNCHANGED vars PROVE IncrInv'
  BY <1>23, Zenon DEF vars
<1> QED
  BY <1>1, <1>2, <1>3, <1>4, <1>5, <1>6, <1>7, <1>8, <1>9, <1>10, <1>11, <1>12, <1>13, <1>14, <1>15, <1>16, <1>17, <1>18, <1>19, <1>20, <1>21, <1>22, <1>23, Zenon DEF Next, Step

\* For any number of clients: no Incr overwrites another Incr's increment.
THEOREM IncrementsKept == Spec => []NoLostIncrement
<1>1. Init => IncrInv
  BY DEF Init, IncrInv, NoLostIncrement, Counting
<1>2. IncrInv => NoLostIncrement
  BY DEF IncrInv
<1> QED
  BY <1>1, <1>2, IncrPreserved, InvHolds, PTL DEF Spec

-----------------------------------------------------------------------------

\* A step of c leaves the phases of the others alone.
LEMMA PhaseStep ==
    ASSUME NEW c \in Clients, pc \in [Clients -> Labels],
           \E l : pc' = [pc EXCEPT ![c] = l],
           \A d \in Clients \ {c} : call'[d] = call[d]
    PROVE  [d \in Clients |-> Phase(d)]' = [[d \in Clients |-> Phase(d)] EXCEPT ![c] = Phase(c)']
<1>1. \A d \in Clients \ {c} : Phase(d)' = Phase(d)
  BY DEF Phase
<1> QED
  BY <1>1, Zenon

\* Every step of the two maps is a step of the forgetful store, or none.
LEMMA StepRefines == Inv /\ [Next]_vars => [Abstract!Next]_(Abstract!vars)
<1> SUFFICES ASSUME Inv, [Next]_vars PROVE [Abstract!Next]_(Abstract!vars)
  OBVIOUS
<1> DEFINE AP == [d \in Clients |-> Phase(d)]
           Stutter == UNCHANGED Abstract!vars
<1> USE DEF Inv, TypeOK, CallInv, AtLabel, Goto, Key, sweep, history
<1>1. ASSUME NEW c \in Clients, Call(c) PROVE Abstract!Invoke(c)
  <2>1. PICK x \in Inputs : call' = [call EXCEPT ![c] = x] /\ Goto(c, First(x))
    BY <1>1, Zenon DEF Call
  <2>2. x \in Abstract!Calls
    BY Zenon DEF Inputs, Abstract!Calls, Abstract!Reads, Abstract!Writes, Abstract!Removals,
           Abstract!Increments, Abstract!Values, Abstract!Strings
  <2>3. Phase(c) = "idle" /\ Phase(c)' = "called"
    BY <1>1, <2>1 DEF Call, First, Phase, Inputs
  <2>4. AP' = [AP EXCEPT ![c] = "called"]
    BY <1>1, <2>1, <2>3, PhaseStep, Zenon DEF Call
  <2>5. call'[c] = x /\ call' = [call EXCEPT ![c] = call'[c]]
    BY <2>1
  <2> QED
    BY <1>1, <2>2, <2>3, <2>4, <2>5 DEF Call, Abstract!Invoke, Abstract!Goto
<1>2. ASSUME NEW c \in Clients, Return(c) PROVE Abstract!Return(c)
  <2>1. Phase(c) = "done" /\ Phase(c)' = "idle"
    BY <1>2, CallTyped, Zenon DEF Return, Phase, OpAt, Replies
  <2>2. AP' = [AP EXCEPT ![c] = "idle"]
    BY <1>2, <2>1, PhaseStep, Zenon DEF Return, Replies
  <2> QED
    BY <1>2, <2>1, <2>2, CallTyped, Zenon DEF Return, OpAt, Abstract!NoCall, NoCall, Abstract!Return, Abstract!Goto
<1>3. ASSUME NEW c \in Clients, Load(c) PROVE Abstract!See(c)
  <2>1. Phase(c) = "called" /\ Phase(c)' = "seen"
    BY <1>3, CallTyped, Zenon DEF Load, Phase, OpAt, Replies
  <2>2. AP' = [AP EXCEPT ![c] = "seen"]
    BY <1>3, <2>1, PhaseStep, Zenon DEF Load, Replies
  <2> QED
    BY <1>3, <2>1, <2>2, CallTyped, Zenon DEF Load, OpAt, Abstract!See, Abstract!Goto
<1>4. ASSUME NEW c \in Clients, Miss(c) PROVE Abstract!Reply(c)
  <2>1. Phase(c) = "seen" /\ Phase(c)' = "done"
    BY <1>4, CallTyped DEF Miss, Phase, OpAt, Replies
  <2>2. AP' = [AP EXCEPT ![c] = "done"]
    BY <1>4, <2>1, PhaseStep, Zenon DEF Miss, Replies
  <2> QED
    BY <1>4, <2>1, <2>2, CallTyped, Zenon DEF Miss, OpAt, Replies, Abstract!Reply, Abstract!Goto
<1>5. ASSUME NEW c \in Clients, Hit(c) PROVE Abstract!Reply(c)
  <2>1. Phase(c) = "seen" /\ Phase(c)' = "done"
    BY <1>5, CallTyped DEF Hit, Phase, OpAt, Replies
  <2>2. AP' = [AP EXCEPT ![c] = "done"]
    BY <1>5, <2>1, PhaseStep, Zenon DEF Hit, Replies
  <2> QED
    BY <1>5, <2>1, <2>2, CallTyped, Zenon DEF Hit, OpAt, Replies, Decoded, Abstract!Reply, Abstract!Goto
<1>6. ASSUME NEW c \in Clients, Expired(c) PROVE Stutter
  <2>1. Phase(c)' = Phase(c)
    BY <1>6, CallTyped, Zenon DEF Expired, Phase, OpAt
  <2>2. AP' = AP
    BY <1>6, <2>1, PhaseStep, Zenon DEF Expired
  <2> QED
    BY <1>6, <2>2, Zenon DEF Expired, Abstract!vars
<1>7. ASSUME NEW c \in Clients, DropValue(c) PROVE Abstract!Remove(c) \/ \E k \in Keys : Abstract!Forget(k)
  <2>1. CASE call[c].op = "delete"
    <3>1. Phase(c) = "called" /\ Phase(c)' = "done"
      BY <1>7, <2>1 DEF DropValue, Phase
    <3>2. AP' = [AP EXCEPT ![c] = "done"]
      BY <1>7, <3>1, PhaseStep, Zenon DEF DropValue
    <3> QED
      BY <1>7, <2>1, <3>1, <3>2, Zenon DEF DropValue, Abstract!Remove, Abstract!Goto
  <2>2. CASE call[c].op # "delete"
    <3>1. Phase(c)' = Phase(c)
      BY <1>7, <2>2 DEF DropValue, Phase
    <3>2. AP' = AP
      BY <1>7, <3>1, PhaseStep, Zenon DEF DropValue
    <3> QED
      BY <1>7, <3>2, CallTyped, Zenon DEF DropValue, Abstract!Forget
  <2> QED
    BY <2>1, <2>2
<1>8. ASSUME NEW c \in Clients, DropExpiry(c) PROVE Abstract!Reply(c) \/ Stutter
  <2>1. CASE call[c].op = "delete"
    <3>1. Phase(c) = "done" /\ Phase(c)' = "done"
      BY <1>8, <2>1 DEF DropExpiry, Replies, Phase
    <3>2. AP' = AP
      BY <1>8, <3>1, PhaseStep, Zenon DEF DropExpiry, Replies
    <3>3. reply' = reply /\ seen' = seen
      BY <1>8, <3>1 DEF DropExpiry, Replies
    <3> QED
      BY <1>8, <3>2, <3>3, Zenon DEF DropExpiry, Abstract!vars
  <2>2. CASE call[c].op # "delete"
    <3>1. Phase(c) = "seen" /\ Phase(c)' = "done"
      BY <1>8, <2>2 DEF DropExpiry, Replies, Phase
    <3>2. AP' = [AP EXCEPT ![c] = "done"]
      BY <1>8, <3>1, PhaseStep, Zenon DEF DropExpiry, Replies
    <3> QED
      BY <1>8, <3>1, <3>2, CallTyped, Zenon DEF DropExpiry, Replies, OpAt, Abstract!Reply, Abstract!Goto
  <2> QED
    BY <2>1, <2>2, Zenon
<1>9. ASSUME NEW c \in Clients, Probe(c) PROVE Abstract!Write(c) \/ Stutter
  <2>1. CASE store[Key(c)] = Marker
    <3>1. Phase(c) = "called" /\ Phase(c)' = "done"
      BY <1>9, <2>1 DEF Probe, Phase
    <3>2. AP' = [AP EXCEPT ![c] = "done"]
      BY <1>9, <3>1, PhaseStep, Zenon DEF Probe
    <3>3. call[c].op = "set" /\ call[c].val = Marker
      BY <1>9 DEF Probe, OpAt
    <3>4. store' = [store EXCEPT ![Key(c)] = call[c].val]
      BY <1>9, <2>1, <3>3 DEF Probe
    <3> QED
      BY <1>9, <3>1, <3>2, <3>3, <3>4, Zenon DEF Probe, Abstract!Write, Abstract!Goto
  <2>2. CASE store[Key(c)] # Marker
    <3>1. Phase(c)' = Phase(c)
      BY <1>9, <2>2 DEF Probe, Phase
    <3>2. AP' = AP
      BY <1>9, <3>1, PhaseStep, Zenon DEF Probe
    <3> QED
      BY <1>9, <3>2, Zenon DEF Probe, Abstract!vars
  <2> QED
    BY <2>1, <2>2, Zenon
<1>10. ASSUME NEW c \in Clients, StoreValue(c) PROVE Abstract!Write(c)
  <2>1. Phase(c) = "called" /\ Phase(c)' = "done"
    BY <1>10, CallTyped DEF StoreValue, Phase, OpAt, Replies
  <2>2. AP' = [AP EXCEPT ![c] = "done"]
    BY <1>10, <2>1, PhaseStep, Zenon DEF StoreValue, Replies
  <2> QED
    BY <1>10, <2>1, <2>2, CallTyped, Zenon DEF StoreValue, OpAt, Abstract!Write, Abstract!Goto
<1>11. ASSUME NEW c \in Clients, Check(c) PROVE Abstract!See(c)
  <2>1. Phase(c) = "called" /\ Phase(c)' = "seen"
    BY <1>11, CallTyped, Zenon DEF Check, Phase, OpAt, Replies
  <2>2. AP' = [AP EXCEPT ![c] = "seen"]
    BY <1>11, <2>1, PhaseStep, Zenon DEF Check, Replies
  <2> QED
    BY <1>11, <2>1, <2>2, CallTyped, Zenon DEF Check, OpAt, Abstract!See, Abstract!Goto
<1>12. ASSUME NEW c \in Clients, StoreDeadline(c) PROVE Abstract!Reply(c) \/ Stutter
  <2>1. CASE call[c].op = "set"
    <3>1. Phase(c) = "done" /\ Phase(c)' = "done"
      BY <1>12, <2>1 DEF StoreDeadline, Replies, Phase
    <3>2. AP' = AP
      BY <1>12, <3>1, PhaseStep, Zenon DEF StoreDeadline, Replies
    <3>3. reply' = reply /\ seen' = seen
      BY <1>12, <3>1, Zenon DEF StoreDeadline, Replies
    <3> QED
      BY <1>12, <3>2, <3>3 DEF StoreDeadline, Abstract!vars
  <2>2. CASE call[c].op = "expire"
    <3>1. Phase(c) = "seen" /\ Phase(c)' = "done"
      BY <1>12, <2>2, Zenon DEF StoreDeadline, Replies, Phase
    <3>2. AP' = [AP EXCEPT ![c] = "done"]
      BY <1>12, <3>1, PhaseStep, Zenon DEF StoreDeadline, Replies
    <3> QED
      BY <1>12, <2>2, <3>1, <3>2 DEF StoreDeadline, Replies, Abstract!Reply, Abstract!Goto
  <2> QED
    BY <1>12, <2>1, <2>2, Zenon DEF StoreDeadline, OpAt
<1>13. ASSUME NEW c \in Clients, Lock(c) PROVE Stutter
  <2>1. Phase(c)' = Phase(c)
    BY <1>13, CallTyped, Zenon DEF Lock, Phase, OpAt
  <2>2. AP' = AP
    BY <1>13, <2>1, PhaseStep, Zenon DEF Lock
  <2> QED
    BY <1>13, <2>2, Zenon DEF Lock, Abstract!vars
<1>14. ASSUME NEW c \in Clients, LockCancelled(c) PROVE Abstract!Fail(c)
  <2>1. Phase(c) = "called" /\ Phase(c)' = "done"
    BY <1>14, CallTyped DEF LockCancelled, Phase, OpAt, Replies
  <2>2. AP' = [AP EXCEPT ![c] = "done"]
    BY <1>14, <2>1, PhaseStep, Zenon DEF LockCancelled, Replies
  <2> QED
    BY <1>14, <2>1, <2>2, CallTyped, Zenon DEF LockCancelled, OpAt, Replies, Abstract!Fail, Abstract!Goto
<1>15. ASSUME NEW c \in Clients, IncrLoad(c) PROVE Abstract!See(c)
  <2>1. Phase(c) = "called" /\ Phase(c)' = "seen"
    BY <1>15, CallTyped DEF IncrLoad, Phase, OpAt, Replies
  <2>2. AP' = [AP EXCEPT ![c] = "seen"]
    BY <1>15, <2>1, PhaseStep, Zenon DEF IncrLoad, Replies
  <2> QED
    BY <1>15, <2>1, <2>2, CallTyped, Zenon DEF IncrLoad, OpAt, Abstract!See, Abstract!Goto
<1>16. ASSUME NEW c \in Clients, IncrStore(c) PROVE Abstract!Increment(c)
  <2>1. Phase(c) = "seen" /\ Phase(c)' = "done"
    BY <1>16, CallTyped DEF IncrStore, Phase, OpAt, Replies
  <2>2. AP' = [AP EXCEPT ![c] = "done"]
    BY <1>16, <2>1, PhaseStep, Zenon DEF IncrStore, Replies
  <2> QED
    BY <1>16, <2>1, <2>2, CallTyped, Zenon DEF IncrStore, OpAt, Replies, Successor, Abstract!Successor, Abstract!Increment, Abstract!Goto
<1>17. ASSUME NEW c \in Clients, Unlock(c) PROVE Stutter
  <2>1. Phase(c)' = Phase(c)
    BY <1>17, CallTyped, Zenon DEF Unlock, Phase, OpAt
  <2>2. AP' = AP
    BY <1>17, <2>1, PhaseStep, Zenon DEF Unlock
  <2> QED
    BY <1>17, <2>2, Zenon DEF Unlock, Abstract!vars
<1>18. ASSUME NEW c \in Clients, UnlockCancelled(c) PROVE Stutter
  <2>1. Phase(c)' = Phase(c)
    BY <1>18, CallTyped DEF UnlockCancelled, Phase, OpAt
  <2>2. AP' = AP
    BY <1>18, <2>1, PhaseStep, Zenon DEF UnlockCancelled
  <2> QED
    BY <1>18, <2>2, Zenon DEF UnlockCancelled, Abstract!vars
<1>19. ASSUME NEW k \in Keys, SweepValue(k) PROVE Abstract!Forget(k)
  BY <1>19 DEF SweepValue, Phase, Abstract!Forget
<1>20. ASSUME (\E k \in Keys : Pass(k)) \/ Collect \/ SweepExpiry \/ UNCHANGED vars PROVE Stutter
  BY <1>20 DEF Pass, Collect, SweepExpiry, vars, Phase, Abstract!vars
<1> QED
  BY <1>1, <1>2, <1>3, <1>4, <1>5, <1>6, <1>7, <1>8, <1>9, <1>10, <1>11, <1>12, <1>13, <1>14, <1>15, <1>16, <1>17, <1>18, <1>19, <1>20 DEF Next, Step, Abstract!Next

\* For any clients, keys and payloads, the local cache is a store that may
\* forget: each call takes effect at one instant between its start and its return.
THEOREM Refinement == Spec => RefinesForgetfulStore
<1>1. Init => Abstract!Init
  BY DEF Init, Abstract!Init, Phase, NoCall, Abstract!NoCall
<1> QED
  BY <1>1, StepRefines, InvHolds, PTL DEF Spec, RefinesForgetfulStore, Abstract!Spec

=============================================================================
