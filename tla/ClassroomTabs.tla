---------------------------- MODULE ClassroomTabs ----------------------------
(***************************************************************************)
(* One browser with several tabs of the board open on one classroom: the   *)
(* Teacher's page and a Student page on the same laptop, each with panels  *)
(* that subscribe to the room (subscribeClassroom of                       *)
(* web/lib/classroom-session.ts).  ClassroomSync gives a device one screen *)
(* and one poll; here is what happens inside the device.                   *)
(*                                                                         *)
(* The tabs share localStorage.  Every write is also posted on a           *)
(* BroadcastChannel, and each subscription that hears a copy stores it     *)
(* WHOLE before it shows it.  A storage event tells the other tabs to look *)
(* at the disk again.  Each subscription runs its own chain of polls, and  *)
(* a press in its tab wakes it, sometimes into a second chain.             *)
(*                                                                         *)
(* Outside are the store, which merges (ground-station/src/classroom-      *)
(* store.ts), and a tablet elsewhere that writes to it.                    *)
(***************************************************************************)
EXTENDS ClassroomDoc, Sequences

CONSTANTS
  Panel,       \* the subscriptions a page can hold
  Tab,         \* the pages
  TabOf,       \* the page each panel is on
  BoardTab,    \* the Teacher's page
  Reports,     \* panels that PUT what they are told: ClassroomCodePanel
  Movable,     \* panels the Teacher leaves and comes back to
  Here,        \* the child whose tablet is a tab of this browser
  Elsewhere,   \* children on tablets of their own
  MaxWrites,   \* bound: presses of each tab, and of Elsewhere
  MaxBeat,     \* bound: a heartbeat saturates here
  MaxChain,    \* bound: chains of polls one subscription is seen to run
  MaxMail,     \* bound: copies waiting for one subscription
  MaxPuts      \* bound: PUTs on their way to the store

ASSUME TabAssumption ==
  /\ TabOf \in [Panel -> Tab] /\ BoardTab \in Tab
  /\ Reports \subseteq Panel /\ Movable \subseteq Panel
  /\ Here \in Student /\ Elsewhere \subseteq Student \ {Here}
  /\ MaxWrites \in [Tab \cup {"elsewhere"} -> Nat]
  /\ MaxBeat \in Nat /\ MaxChain \in [Panel -> Nat \ {0}] /\ MaxMail \in Nat /\ MaxPuts \in Nat

Message == [from : Tab, doc : Doc]

VARIABLES
  disk,      \* localStorage, one for all tabs
  shown,     \* what each panel's React state holds
  mounted,   \* panels on screen
  mail,      \* copies posted on the channel and not yet heard by a panel
  stirred,   \* panels with a storage event to hear
  waits,     \* chains of a panel with a timer set, or a request not yet read
  answers,   \* the store's answers on their way back to a panel
  pending,   \* pendingPush of each tab
  puts,      \* PUTs on their way to the store
  store,     \* the document the store holds
  writes     \* presses so far, for the bound

vars == <<disk, shown, mounted, mail, stirred, waits, answers, pending, puts,
          store, writes>>

TypeOK ==
  /\ disk \in Doc /\ store \in Doc
  /\ shown \in [Panel -> Doc]
  /\ mounted \subseteq Panel /\ stirred \subseteq Panel
  /\ mail \in [Panel -> Seq(Message)]
  /\ waits \in [Panel -> Nat]
  /\ answers \in [Panel -> SUBSET Doc]
  /\ pending \in [Tab -> Doc \cup {NoDoc}]
  /\ puts \subseteq Doc
  /\ writes \in [Tab \cup {"elsewhere"} -> Nat]

\* Pages are open on the same quiet room.
Opened(room, panels) ==
  /\ disk = room /\ store = room
  /\ shown = [p \in Panel |-> room]
  /\ mounted = panels
  /\ mail = [p \in Panel |-> <<>>]
  /\ stirred = {}
  /\ waits = [p \in Panel |-> IF p \in panels THEN 1 ELSE 0]
  /\ answers = [p \in Panel |-> {}]
  /\ pending = [t \in Tab |-> NoDoc]
  /\ puts = {}

Init == Opened(EmptySession, Panel) /\ writes = [t \in Tab \cup {"elsewhere"} |-> 0]

-----------------------------------------------------------------------------
(* What a write does to the other panels. *)

On(t) == {p \in mounted : TabOf[p] = t}
Quiet == \A p \in Panel : mail[p] = <<>>
Chains(p) == waits[p] + Cardinality(answers[p])

\* Mutant: the page posts on the channel it listens on, and hears nothing itself.
PostedToOthers(t, doc) ==
  /\ \A p \in mounted : Len(mail[p]) < MaxMail
  /\ mail' = [p \in Panel |-> IF p \in mounted /\ TabOf[p] # t
                              THEN Append(mail[p], [from |-> t, doc |-> doc])
                              ELSE mail[p]]

\* The page posts through a channel object of its own making, so its own
\* subscriptions hear it too.
broadcastClassroom(t, doc) ==
  /\ \A p \in mounted : Len(mail[p]) < MaxMail
  /\ mail' = [p \in Panel |-> IF p \in mounted
                              THEN Append(mail[p], [from |-> t, doc |-> doc])
                              ELSE mail[p]]

\* setItem of a new value fires in every page but the one that wrote.
Stirs(t, old, new) ==
  IF old = new THEN {} ELSE {p \in mounted : TabOf[p] # t}

\* A chain with its timer set is pulled forward and stays one; one with its
\* request or its answer on the way is joined by another.
wakeClassroomPolls(t) ==
  \E woken \in SUBSET On(t) :
    /\ \A p \in woken : Chains(p) < MaxChain[p]
    /\ \A p \in On(t) \ woken : waits[p] > 0 \/ Chains(p) = MaxChain[p]
    /\ waits' = [p \in Panel |-> IF p \in woken THEN waits[p] + 1 ELSE waits[p]]

\* writeClassroomSession.
Save(t, session, cloud) ==
  LET next == stampRevisions(disk, session)
  IN  /\ disk' = next
      /\ stirred' = stirred \cup Stirs(t, disk, next)
      /\ broadcastClassroom(t, next)
      /\ wakeClassroomPolls(t)
      /\ pending' = IF cloud THEN [pending EXCEPT ![t] = next] ELSE pending

Count(who) == writes[who] < MaxWrites[who] /\ writes' = [writes EXCEPT ![who] = @ + 1]

\* ClassroomCodePanel answers every copy it is told of with a PUT of its own,
\* which lands or is refused; what it says of the refusal is not here.
reportClassroomSync(p, doc) ==
  store' \in IF p \in Reports THEN {store, mergeClassrooms(doc, store)} ELSE {store}

\* onChange: the state is set, and a reporting panel reports.
Told(p, doc) ==
  /\ shown' = [shown EXCEPT ![p] = doc]
  /\ reportClassroomSync(p, doc)

-----------------------------------------------------------------------------
(* Presses. *)

\* The board reads the disk afresh.
pushClassroomInstruction ==
  /\ Count(BoardTab)
  /\ Save(BoardTab, [disk EXCEPT !.posts = @ + 1], TRUE)
  /\ UNCHANGED <<shown, mounted, answers, puts, store>>

Beat(b) == IF b < MaxBeat THEN b + 1 ELSE b

\* Every ten seconds, long after the channel delivered the last one; to the cloud
\* at most once a minute.
touchBoard(cloud) ==
  /\ disk.live
  /\ Quiet
  /\ Save(BoardTab, [disk EXCEPT !.boardSeen = Beat(@)], cloud)
  /\ UNCHANGED <<shown, mounted, answers, puts, store, writes>>

\* Mutant: the press is written to this device only, as a beat is.
requestOnThisDevice(p) ==
  /\ p \in mounted /\ TabOf[p] # BoardTab
  /\ Count(TabOf[p])
  /\ Here \in Seated(shown[p]) /\ shown[p].seats[Here].phase \in {"briefing", "held"}
  /\ Save(TabOf[p], updateSeatPhase(shown[p], Here, "awaiting-clearance"), FALSE)
  /\ shown' = [shown EXCEPT ![p] = disk']
  /\ UNCHANGED <<mounted, answers, puts, store>>

\* The child's screen starts from what it shows, and shows the result at once.
requestTakeoff(p) ==
  /\ p \in mounted /\ TabOf[p] # BoardTab
  /\ Count(TabOf[p])
  /\ Here \in Seated(shown[p]) /\ shown[p].seats[Here].phase \in {"briefing", "held"}
  /\ Save(TabOf[p], updateSeatPhase(shown[p], Here, "awaiting-clearance"), TRUE)
  /\ shown' = [shown EXCEPT ![p] = disk']
  /\ UNCHANGED <<mounted, answers, puts, store>>

\* A child across the room joins: their tablet's PUT lands on the store.
JoinsElsewhere(s) ==
  /\ Count("elsewhere")
  /\ store.seats[s] = NoSeat
  /\ \E name \in Name :
       store' = mergeClassrooms(
                  stampRevisions(store, joinClassroomAsStudent(store, s, name)), store)
  /\ UNCHANGED <<disk, shown, mounted, mail, stirred, waits, answers, pending, puts>>

-----------------------------------------------------------------------------
(* What a subscription hears. *)

\* A copy heard on the channel is stored as it came.
Heard(doc) == doc

Without(seq, i) == SubSeq(seq, 1, i - 1) \o SubSeq(seq, i + 1, Len(seq))

\* The messages of one page are heard in the order it posted them.
HearChannel(p) ==
  /\ p \in mounted
  /\ \E i \in 1 .. Len(mail[p]) :
       LET message == mail[p][i]
           copy == Heard(message.doc)
       IN  /\ \A j \in 1 .. i - 1 : mail[p][j].from # message.from
           /\ mail' = [mail EXCEPT ![p] = Without(@, i)]
           /\ disk' = copy
           /\ stirred' = stirred \cup Stirs(TabOf[p], disk, copy)
           /\ Told(p, message.doc)
  /\ UNCHANGED <<mounted, waits, answers, pending, puts, writes>>

HearStorage(p) ==
  /\ p \in stirred
  /\ stirred' = stirred \ {p}
  /\ Told(p, disk)
  /\ UNCHANGED <<disk, mounted, mail, waits, answers, pending, puts, writes>>

\* A chain asks; two answers that are the same copy are one.
pullClassroomFromCloud(p) ==
  /\ p \in mounted
  /\ waits[p] > 0 /\ store \notin answers[p]
  /\ waits' = [waits EXCEPT ![p] = @ - 1]
  /\ answers' = [answers EXCEPT ![p] = @ \cup {store}]
  /\ UNCHANGED <<disk, shown, mounted, mail, stirred, pending, puts, store, writes>>

\* schedule(), unless the subscription was stopped meanwhile.
Again(p) == IF p \in mounted THEN [waits EXCEPT ![p] = @ + 1] ELSE waits

\* tick: the answer is merged with the disk of now.  Only its own panel is told.
subscribeClassroom(p) ==
  \E remote \in answers[p] :
    LET merged == Merge(disk, remote)
    IN  /\ answers' = [answers EXCEPT ![p] = @ \ {remote}]
        /\ waits' = Again(p)
        /\ IF classroomsDiffer(merged, disk)
           THEN /\ disk' = merged
                /\ stirred' = stirred \cup Stirs(TabOf[p], disk, merged)
                /\ Told(p, merged)
           ELSE UNCHANGED <<disk, stirred, shown, store>>
        /\ pending' = IF classroomSeatsDiffer(merged, remote)
                      THEN [pending EXCEPT ![TabOf[p]] = merged] ELSE pending
        /\ UNCHANGED <<mounted, mail, puts, writes>>

\* The Teacher goes to another screen: the channel is closed and the timer
\* cleared, but an answer on its way back still arrives.
Unsubscribe(p) ==
  /\ p \in mounted \cap Movable
  /\ mounted' = mounted \ {p}
  /\ mail' = [mail EXCEPT ![p] = <<>>]
  /\ stirred' = stirred \ {p}
  /\ waits' = [waits EXCEPT ![p] = 0]
  /\ UNCHANGED <<disk, shown, answers, pending, puts, store, writes>>

Mount(p) ==
  /\ p \in Movable \ mounted
  /\ answers[p] = {}
  /\ mounted' = mounted \cup {p}
  /\ waits' = [waits EXCEPT ![p] = 1]
  /\ Told(p, disk)
  /\ UNCHANGED <<disk, mail, stirred, answers, pending, puts, writes>>

-----------------------------------------------------------------------------
(* The wire. *)

\* Eight hundred milliseconds after the tab's last write.
scheduleClassroomCloudPush(t) ==
  /\ pending[t] # NoDoc
  /\ Cardinality(puts \cup {pending[t]}) <= MaxPuts
  /\ puts' = puts \cup {pending[t]}
  /\ pending' = [pending EXCEPT ![t] = NoDoc]
  /\ UNCHANGED <<disk, shown, mounted, mail, stirred, waits, answers, store, writes>>

writeClassroom(doc) ==
  /\ doc \in puts
  /\ puts' = puts \ {doc}
  /\ store' = mergeClassrooms(doc, store)
  /\ UNCHANGED <<disk, shown, mounted, mail, stirred, waits, answers, pending, writes>>

Next ==
  \/ pushClassroomInstruction
  \/ \E cloud \in BOOLEAN : touchBoard(cloud)
  \/ \E s \in Elsewhere : JoinsElsewhere(s)
  \/ \E p \in Panel :
       \/ requestTakeoff(p)
       \/ HearChannel(p)
       \/ HearStorage(p)
       \/ pullClassroomFromCloud(p)
       \/ subscribeClassroom(p)
       \/ Unsubscribe(p)
       \/ Mount(p)
  \/ \E t \in Tab : scheduleClassroomCloudPush(t)
  \/ \E doc \in puts : writeClassroom(doc)

Spec == Init /\ [][Next]_vars

-----------------------------------------------------------------------------
(* What must happen in the end. *)

\* The channel delivers in milliseconds and a poll waits seconds: a poll does not
\* fall into every beat's delivery for ever.
Fairness ==
  /\ WF_vars(\E p \in Panel : HearChannel(p))
  /\ WF_vars(\E p \in Panel : HearStorage(p))
  /\ SF_vars(Quiet /\ \E p \in Panel : pullClassroomFromCloud(p))
  /\ SF_vars(Quiet /\ \E p \in Panel : subscribeClassroom(p))
  /\ \A t \in Tab : SF_vars(scheduleClassroomCloudPush(t))
  /\ WF_vars(\E doc \in puts : writeClassroom(doc))
  /\ SF_vars(touchBoard(TRUE))

SameCounts(a, b) ==
  /\ a.rev = b.rev
  /\ Seated(a) = Seated(b)
  /\ \A s \in Seated(a) : a.seats[s].rev = b.seats[s].rev

\* Once everybody has stopped pressing, every panel on screen shows the disk, and
\* the disk counts what the store counts: a copy stored whole over a newer one,
\* and a poll whose news only its own panel was told, are both made good by the
\* board's beat (subscribeClassroom, touchBoard).
EveryPanelLearns ==
  <>[](SameCounts(disk, store) /\ \A p \in mounted : SameCounts(shown[p], disk))

Asked(doc) == Here \in Seated(doc) /\ doc.seats[Here].phase = "awaiting-clearance"

\* A takeoff asked for on the Student tab is in the store in the end, though a
\* copy posted before it was stored over it: the snapshot that waits out the
\* debounce is the press's own (scheduleClassroomCloudPush).
RequestReachesStore == Asked(disk) ~> Asked(store)
=============================================================================
