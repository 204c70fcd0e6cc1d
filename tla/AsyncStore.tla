----------------------------- MODULE AsyncStore -----------------------------
(***************************************************************************)
(* AsyncStore and its hubs over the life of one stream name: the stream is *)
(* created, opened, deleted and created again by tasks of an event loop,   *)
(* each store operation runs in a thread, and what AsyncStore does with    *)
(* the result (find a hub, drop a hub) runs on the loop some time later.   *)
(*                                                                         *)
(* Every DurableStream object of the name and every _Hub has a number.  A  *)
(* record is <<object, offset>>, so that it shows which stream it is from. *)
(* An event loop may be closed with subscriptions still open, and another  *)
(* one go on with the same store.                                          *)
(*                                                                         *)
(* AsyncSubscribe has every interleaving of one hub with its writers; here *)
(* a subscription runs in one step from one await to the next.             *)
(***************************************************************************)
EXTENDS Naturals, SequencesExt

CONSTANTS
    Task,        \* tasks, and the worker threads they wait for
    MaxStreams,  \* bound: stream objects of the name
    MaxHubs,     \* bound: hubs
    MaxLoops,    \* bound: event loops, one after the other
    MaxRecords,  \* bound: records of one stream
    MaxReady     \* bound: changes the loop has not delivered when an append begins

ASSUME Bounds ==
    /\ MaxStreams \in Nat /\ MaxHubs \in Nat
    /\ MaxLoops \in Nat \ {0} /\ MaxRecords \in Nat /\ MaxReady \in Nat

Stream == 1..MaxStreams
Hub == 1..MaxHubs
None == 0    \* no stream, no hub, no loop

VARIABLES
    next,      \* next[s]: next_offset
    closed,    \* closed[s]: _closed
    fileOpen,  \* fileOpen[s]: _file is not None
    born,      \* stream objects so far
    current,   \* Store._open[name]
    meta,      \* the metadata: "none", "row", "sealed" (a row that says closed),
               \* or "shut" after Store.close
    table,     \* AsyncStore._hubs[name]
    hubs,      \* the _Hub objects: stream, subs, and loop, set while listening
    loop,      \* the event loop that is not closed
    ready,     \* what threads handed to it: [hub, start, records]
    home,      \* home[t]: the loop of the task
    tpc,       \* tpc[t]: where a task, or its thread, is
    on,        \* on[t]: AsyncDurableStream._s
    via,       \* via[t]: AsyncDurableStream._hub
    told,      \* told[t]: the change its thread notifies, and the hubs left
    sub,       \* sub[t]: its _Sub: buf, start, stale
    pos,       \* pos[t]: the offset of the next record it will yield
    got        \* got[t]: history, the records this subscription has yielded

engine == <<next, closed, fileOpen>>
store == <<born, current, meta>>
handle == <<on, via>>
reading == <<sub, pos, got>>
vars == <<next, closed, fileOpen, born, current, meta, table, hubs, loop, ready,
          home, tpc, on, via, told, sub, pos, got>>

Quiet == [stream |-> None, start |-> 0, records |-> <<>>, hubs |-> {}, then |-> "idle"]
\* What a thread is going to tell of stream s, on the way to label.
Tale(s, records, label) ==
    [stream |-> s, start |-> next[s], records |-> records, hubs |-> {}, then |-> label]

NewSub == [buf |-> <<>>, start |-> 0, stale |-> TRUE]

Init ==
    /\ next = [s \in Stream |-> 0]
    /\ closed = [s \in Stream |-> FALSE] /\ fileOpen = [s \in Stream |-> FALSE]
    /\ born = 0 /\ current = None /\ meta = "none"
    /\ table = None /\ hubs = <<>>
    /\ loop = 1 /\ ready = <<>>
    /\ home = [t \in Task |-> 1]
    /\ tpc = [t \in Task |-> "idle"]
    /\ on = [t \in Task |-> None] /\ via = [t \in Task |-> None]
    /\ told = [t \in Task |-> Quiet]
    /\ sub = [t \in Task |-> NewSub]
    /\ pos = [t \in Task |-> 0] /\ got = [t \in Task |-> <<>>]

Goto(t, label) == tpc' = [tpc EXCEPT ![t] = label]

\* Task t may run: its loop is the one that is not closed.
OnLoop(t, label) == home[t] = loop /\ tpc[t] = label

-----------------------------------------------------------------------------
(* Store operations, each in a thread under the store's lock.              *)

HasRow == meta \in {"row", "sealed"}

\* _open_stream: a new object, closed if its row says so.  Its log is empty: a
\* row without an object is left by a delete that had removed the log.
OpenStream(t) ==
    /\ born < MaxStreams
    /\ born' = born + 1 /\ current' = born'
    /\ meta' = IF HasRow THEN meta ELSE "row"
    /\ closed' = [closed EXCEPT ![born'] = (meta = "sealed")]
    /\ fileOpen' = [fileOpen EXCEPT ![born'] = TRUE]
    /\ on' = [on EXCEPT ![t] = born']
    /\ Goto(t, "wrap")
    /\ UNCHANGED next

Found(t) ==
    /\ current # None
    /\ on' = [on EXCEPT ![t] = current]
    /\ Goto(t, "wrap")
    /\ UNCHANGED <<engine, store>>

Refused(t) == Goto(t, "idle") /\ UNCHANGED <<engine, store, on>>

CreateInThread(t) ==
    /\ OnLoop(t, "idle")
    /\ \/ Found(t)
       \/ current = None /\ meta # "shut" /\ OpenStream(t)
       \/ current = None /\ meta = "shut" /\ Refused(t)
    /\ UNCHANGED <<table, hubs, loop, ready, home, via, told, reading>>

OpenInThread(t) ==
    /\ OnLoop(t, "idle")
    /\ \/ Found(t)
       \/ current = None /\ HasRow /\ OpenStream(t)
       \/ current = None /\ ~HasRow /\ Refused(t)
    /\ UNCHANGED <<table, hubs, loop, ready, home, via, told, reading>>

\* _close_fds of the object in _open, if there is one, then what its
\* _notify_closed tells, on the way to label.
CloseFds(t, label) ==
    /\ current' = None
    /\ IF current = None
       THEN Goto(t, label) /\ UNCHANGED <<closed, fileOpen, told>>
       ELSE /\ closed' = [closed EXCEPT ![current] = TRUE]
            /\ fileOpen' = [fileOpen EXCEPT ![current] = FALSE]
            /\ told' = [told EXCEPT ![t] = Tale(current, <<>>, label)]
            /\ Goto(t, "notify")
    /\ UNCHANGED <<next, born>>

\* Store.delete.  It may raise before it touches anything (the wake-ups without a
\* change that this brings are in AsyncSubscribe), or when it deletes the row,
\* with the object closed and the log gone.
DeleteInThread(t) ==
    /\ OnLoop(t, "idle")
    /\ \/ meta # "shut" /\ meta' = "none" /\ CloseFds(t, "pop")
       \/ HasRow /\ UNCHANGED meta /\ CloseFds(t, "idle")
       \/ Refused(t) /\ UNCHANGED told
    /\ UNCHANGED <<table, hubs, loop, ready, home, handle, reading>>

\* Store.close.
ShutInThread(t) ==
    /\ OnLoop(t, "idle")
    /\ meta' = "shut" /\ CloseFds(t, "pop")
    /\ UNCHANGED <<table, hubs, loop, ready, home, handle, reading>>

-----------------------------------------------------------------------------
(* What AsyncStore does with the result, on the loop.                      *)

\* Mutant of Usable: any hub of the name will do.
UsableByName(s) == table # None

\* _wrap keeps a hub of this stream, or of another one that is not closed.
Usable(s) ==
    /\ table # None
    /\ hubs[table].stream = s \/ ~closed[hubs[table].stream]

Wrap(t) ==
    /\ OnLoop(t, "wrap")
    /\ IF Usable(on[t])
       THEN via' = [via EXCEPT ![t] = table] /\ UNCHANGED <<table, hubs>>
       ELSE /\ Len(hubs) < MaxHubs
            /\ hubs' = Append(hubs, [stream |-> on[t], subs |-> {}, loop |-> None])
            /\ table' = Len(hubs') /\ via' = [via EXCEPT ![t] = Len(hubs')]
    /\ Goto(t, "held")
    /\ UNCHANGED <<engine, store, loop, ready, home, on, told, reading>>

\* delete and close drop the hub, whichever it is by now.
Pop(t) ==
    /\ OnLoop(t, "pop")
    /\ table' = None
    /\ Goto(t, "idle")
    /\ UNCHANGED <<engine, store, hubs, loop, ready, home, handle, told, reading>>

\* The task was cancelled while its thread was at work: the thread's result
\* is thrown away.
Cancelled(t) ==
    /\ OnLoop(t, "wrap") \/ OnLoop(t, "pop")
    /\ Goto(t, "idle")
    /\ UNCHANGED <<engine, store, table, hubs, loop, ready, home, handle, told, reading>>

-----------------------------------------------------------------------------
(* Appends, and the way of a change to the hubs.                           *)

\* append in a thread: the record is durable and in the index, or the stream
\* is closed and the append raises; both notify.
AppendInThread(t) ==
    /\ OnLoop(t, "held") /\ Len(ready) <= MaxReady
    /\ LET s == on[t] IN
       IF closed[s]
       THEN /\ told' = [told EXCEPT ![t] = Tale(s, <<>>, "held")]
            /\ UNCHANGED next
       ELSE /\ next[s] < MaxRecords
            /\ next' = [next EXCEPT ![s] = @ + 1]
            /\ told' = [told EXCEPT ![t] = Tale(s, <<<<s, next[s]>>>>, "held")]
    /\ Goto(t, "notify")
    /\ UNCHANGED <<closed, fileOpen, store, table, hubs, loop, ready, home, handle, reading>>

\* close of the stream: the row, the flag, then the notification.
CloseInThread(t) ==
    /\ OnLoop(t, "held") /\ fileOpen[on[t]] /\ ~closed[on[t]]
    /\ meta' = "sealed"
    /\ closed' = [closed EXCEPT ![on[t]] = TRUE]
    /\ told' = [told EXCEPT ![t] = Tale(on[t], <<>>, "held")]
    /\ Goto(t, "notify")
    /\ UNCHANGED <<next, fileOpen, born, current, table, hubs, loop, ready, home, handle,
                   reading>>

\* Task t has told everybody in the end: it goes on.
Tell(t, hs) ==
    IF hs = {} THEN told' = [told EXCEPT ![t] = Quiet] /\ Goto(t, told[t].then)
    ELSE told' = [told EXCEPT ![t].hubs = hs] /\ Goto(t, "tell")

\* _notify: a snapshot of the stream's listeners.
Notify(t) ==
    /\ tpc[t] = "notify"
    /\ Tell(t, {h \in DOMAIN hubs : hubs[h].stream = told[t].stream /\ hubs[h].loop # None})
    /\ UNCHANGED <<engine, store, table, hubs, loop, ready, home, handle, reading>>

\* _on_change of one of them: nothing reaches a loop that is closed.
OnChange(t, h) ==
    /\ tpc[t] = "tell" /\ h \in told[t].hubs
    /\ Tell(t, told[t].hubs \ {h})
    /\ ready' = IF hubs[h].loop = loop
                THEN Append(ready, [hub |-> h, start |-> told[t].start,
                                    records |-> told[t].records])
                ELSE ready
    /\ UNCHANGED <<engine, store, table, hubs, loop, home, handle, reading>>

\* _Sub.deliver.
Delivered(b, change) ==
    LET end == b.start + Len(b.buf)
    IN  IF b.stale \/ change.records = <<>> THEN b
        ELSE IF change.start > end THEN [b EXCEPT !.buf = <<>>, !.stale = TRUE]
        ELSE [b EXCEPT !.buf =
               @ \o SubSeq(change.records, end - change.start + 1, Len(change.records))]

\* _Hub._deliver: every subscriber of the hub takes the change and wakes.
Deliver ==
    /\ ready # <<>>
    /\ LET change == Head(ready)
           subs   == hubs[change.hub].subs
       IN  /\ sub' = [t \in Task |-> IF t \in subs THEN Delivered(sub[t], change) ELSE sub[t]]
           /\ tpc' = [t \in Task |-> IF t \in subs /\ tpc[t] = "wait" THEN "run" ELSE tpc[t]]
    /\ ready' = Tail(ready)
    /\ UNCHANGED <<engine, store, table, hubs, loop, home, handle, told, pos, got>>

-----------------------------------------------------------------------------
(* Subscriptions.                                                          *)

\* Mutant of Joined: the subscribers of a closed loop stay.
JoinedKeeps(h, t) ==
    [h EXCEPT !.subs = @ \cup {t}, !.loop = loop]

\* join drops the subscribers of a loop that was closed and takes this one.
Joined(h, t) ==
    [h EXCEPT !.subs = (IF h.loop \in {None, loop} THEN @ ELSE {}) \cup {t}, !.loop = loop]

\* subscribe(offset), from the start or from where an earlier one was left.
Subscribe(t) ==
    /\ OnLoop(t, "held")
    /\ hubs' = [hubs EXCEPT ![via[t]] = Joined(@, t)]
    /\ sub' = [sub EXCEPT ![t] = NewSub] /\ got' = [got EXCEPT ![t] = <<>>]
    /\ Goto(t, "run")
    /\ UNCHANGED <<engine, store, table, loop, ready, home, handle, told, pos>>

\* Mutant of Leave: whoever leaves takes the listener along.
LeaveAnyone(t) ==
    hubs' = [hubs EXCEPT ![via[t]].subs = @ \ {t}, ![via[t]].loop = None]

\* leave: the last one out removes the listener.
Leave(t) ==
    LET rest == hubs[via[t]].subs \ {t}
    IN  hubs' = [hubs EXCEPT ![via[t]].subs = rest,
                             ![via[t]].loop = IF rest = {} THEN None ELSE @]

\* A stale subscription with something to read starts over from disk.
CatchUp(t) ==
    /\ OnLoop(t, "run")
    /\ sub[t].stale /\ pos[t] < next[on[t]]
    /\ sub' = [sub EXCEPT ![t] = [buf |-> <<>>, start |-> next[on[t]], stale |-> FALSE]]
    /\ Goto(t, "read")
    /\ UNCHANGED <<engine, store, table, hubs, loop, ready, home, handle, told, pos, got>>

\* The engine's read: what is there from pos on, or StreamClosed.
ReadInThread(t) ==
    /\ tpc[t] = "read"
    /\ LET s == on[t] IN
       IF fileOpen[s]
       THEN /\ got' = [got EXCEPT ![t] = @ \o [i \in 1..next[s] - pos[t] |-> <<s, pos[t] + i - 1>>]]
            /\ pos' = [pos EXCEPT ![t] = next[s]]
            /\ Goto(t, "run")
       ELSE Goto(t, "raise") /\ UNCHANGED <<pos, got>>
    /\ UNCHANGED <<engine, store, table, hubs, loop, ready, home, handle, told, sub>>

\* Yield what is live, then end, go back to disk, or sleep.
Drain(t) ==
    LET s     == on[t]
        b     == IF sub[t].stale THEN [buf |-> <<>>, start |-> next[s]] ELSE sub[t]
        old   == Min({Len(b.buf), IF pos[t] > b.start THEN pos[t] - b.start ELSE 0})
        live  == SubSeq(b.buf, old + 1, Len(b.buf))
        start == IF live = <<>> THEN Max({b.start + old, pos[t]}) ELSE b.start + old
        hole  == start > pos[t]
        last  == IF hole THEN pos[t] ELSE pos[t] + Len(live)
    IN  /\ OnLoop(t, "run")
        /\ sub[t].stale => pos[t] >= next[s]
        /\ pos' = [pos EXCEPT ![t] = last]
        /\ got' = [got EXCEPT ![t] = IF hole THEN @ ELSE @ \o live]
        /\ IF closed[s] /\ ~hole /\ last >= next[s]
           THEN Leave(t) /\ Goto(t, "held") /\ sub' = [sub EXCEPT ![t] = NewSub]
           ELSE /\ sub' = [sub EXCEPT ![t] = [buf |-> <<>>, start |-> Max({start, last}),
                                              stale |-> hole \/ closed[s]]]
                /\ Goto(t, IF hole \/ closed[s] THEN "run" ELSE "wait")
                /\ UNCHANGED hubs
        /\ UNCHANGED <<engine, store, table, loop, ready, home, handle, told>>

Subscribed == {"run", "read", "raise", "wait"}

Unsubscribe(t) ==
    /\ Leave(t)
    /\ sub' = [sub EXCEPT ![t] = NewSub]
    /\ Goto(t, "held")
    /\ UNCHANGED <<engine, store, table, loop, ready, home, handle, told, pos, got>>

\* read raised StreamClosed.
Raise(t) == OnLoop(t, "raise") /\ Unsubscribe(t)

\* The consumer goes away; it may come back and subscribe again from the
\* offset it has reached.
Disconnect(t) == (OnLoop(t, "run") \/ OnLoop(t, "wait")) /\ Unsubscribe(t)

\* The task lets go of its stream.
Release(t) ==
    /\ OnLoop(t, "held")
    /\ on' = [on EXCEPT ![t] = None] /\ via' = [via EXCEPT ![t] = None]
    /\ pos' = [pos EXCEPT ![t] = 0] /\ got' = [got EXCEPT ![t] = <<>>]
    /\ Goto(t, "idle")
    /\ UNCHANGED <<engine, store, table, hubs, loop, ready, home, told, sub>>

\* The loop is closed as it is, and another one will go on.
CloseLoop ==
    /\ loop < MaxLoops
    /\ loop' = loop + 1 /\ ready' = <<>>
    /\ UNCHANGED <<engine, store, table, hubs, home, tpc, handle, told, reading>>

\* What a task of a closed loop left behind is collected: a generator's
\* finally still runs.  The new loop gets a task in its place.
Collect(t) ==
    /\ home[t] # loop
    /\ tpc[t] \in Subscribed \cup {"idle", "wrap", "pop", "held"}
    /\ IF tpc[t] \in Subscribed THEN Leave(t) ELSE UNCHANGED hubs
    /\ home' = [home EXCEPT ![t] = loop]
    /\ on' = [on EXCEPT ![t] = None] /\ via' = [via EXCEPT ![t] = None]
    /\ sub' = [sub EXCEPT ![t] = NewSub]
    /\ pos' = [pos EXCEPT ![t] = 0] /\ got' = [got EXCEPT ![t] = <<>>]
    /\ Goto(t, "idle")
    /\ UNCHANGED <<engine, store, table, loop, ready, told>>

-----------------------------------------------------------------------------
Thread(t) ==
    ReadInThread(t) \/ Notify(t) \/ \E h \in Hub : OnChange(t, h)

Going(t) == Wrap(t) \/ Pop(t) \/ CatchUp(t) \/ Drain(t) \/ Raise(t)

Next ==
    \/ Deliver \/ CloseLoop
    \/ \E t \in Task :
         \/ Thread(t) \/ Going(t)
         \/ CreateInThread(t) \/ OpenInThread(t) \/ DeleteInThread(t) \/ ShutInThread(t)
         \/ AppendInThread(t) \/ CloseInThread(t) \/ Subscribe(t)
         \/ Cancelled(t) \/ Disconnect(t) \/ Release(t) \/ Collect(t)

Spec == Init /\ [][Next]_vars

\* Threads finish what they have begun and the loop keeps running.
Fairness ==
    /\ WF_vars(Deliver)
    /\ \A t \in Task : WF_vars(Thread(t)) /\ WF_vars(Going(t))

FairSpec == Spec /\ Fairness

-----------------------------------------------------------------------------
(* Properties.                                                             *)

\* A subscription yields records of the stream it was opened on and of no
\* other, one after the other, whatever was deleted and created under its name.
NoForeignRecords ==
    \A t \in Task : tpc[t] \in Subscribed =>
        \A i \in DOMAIN got[t] :
            got[t][i] = <<on[t], pos[t] - Len(got[t]) + i - 1>>

\* A change of stream s that will still reach hub h.
Coming(s, h) ==
    \/ \E i \in DOMAIN ready : ready[i].hub = h
    \/ \E t \in Task : /\ told[t].stream = s
                       /\ \/ tpc[t] = "notify"
                          \/ tpc[t] = "tell" /\ h \in told[t].hubs

\* A subscription that sleeps on the running loop, at whichever of its
\* stream's hubs, has nothing to fetch, or its wake-up is on the way.
NoLostWakeup ==
    \A t \in Task :
        OnLoop(t, "wait") /\ (next[on[t]] > pos[t] \/ closed[on[t]]) => Coming(on[t], via[t])

\* A hub serves subscribers of one loop: those of a closed one are gone before
\* the first of the next joins, so no delivery runs into them.
OneLoop ==
    \A h \in DOMAIN hubs : \A t \in hubs[h].subs :
        home[t] = hubs[h].loop /\ tpc[t] \in Subscribed /\ via[t] = h

\* Deleting or closing a stream ends its subscriptions, or their loop does.
ClosedEnds ==
    \A t \in Task : (tpc[t] \in Subscribed /\ closed[on[t]])
        ~> (tpc[t] \notin Subscribed \/ home[t] # loop)
=============================================================================
