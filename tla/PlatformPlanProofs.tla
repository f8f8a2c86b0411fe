-------------------------- MODULE PlatformPlanProofs --------------------------
(***************************************************************************)
(* One plan at a time, and rows, level and team that follow Stripe, for    *)
(* any number of plans, of requests and handlers at once, of changes at    *)
(* Stripe and of faults.                                                   *)
(***************************************************************************)
EXTENDS PlatformPlan, FiniteSetTheorems, TLAPS

Asked == {"checkout", "change", "unpaid", "cancel", "resume"}

(* The places where a subscription that was read is still to be written,   *)
(* and those after the row, the level and the team are written.            *)
Reading  == {"findOthers", "cancelOthers", "rowOther", "apply"}
Written  == {"tier", "level", "team", "members", "finish"}
Levelled == {"team", "members", "finish"}
Moved    == {"finish"}

(* The types, with those that only some handlers look at. *)
TypeInv ==
    /\ TypeOK
    /\ seen \in [Actors -> [state : {"none", "canceled"} \union Live, atEnd : BOOLEAN]]
    /\ dunned \in BOOLEAN /\ overlapped \in BOOLEAN /\ misled \in BOOLEAN

(* Where an actor stands fits what it does; only what was sold has rows    *)
(* and notices, and is asked about.                                        *)
PlaceInv ==
    /\ \A a \in Actors :
          /\ pc[a] = "idle" <=> op[a] = "none"
          /\ pc[a] # "idle" => on[a] \in Subs
          /\ pc[a] = "open" <=> op[a] = "buy"
          /\ pc[a] = "finish" => op[a] \in Notices
          /\ pc[a] \in {"readSub", "findOthers", "cancelOthers", "rowOther"} => op[a] = "checkout"
          /\ pc[a] \in {"reread", "apply"} => op[a] \in {"change", "cancel", "resume"}
          /\ pc[a] = "unpaid" => op[a] = "unpaid"
          /\ pc[a] \in {"stripeCancel", "markCancelled"} => op[a] = "cancel"
          /\ pc[a] \in {"stripeResume", "markResumed"} => op[a] = "resume"
          /\ op[a] \in Asked => state[on[a]] # "none"
          /\ pc[a] \in Reading => seen[a].state # "none"
          /\ pc[a] = "rowOther" => target[a] \in Subs /\ status[target[a]] # "none"
          /\ op[a] = "checkout" /\ pc[a] \in Written => status[on[a]] # "none"
          /\ op[a] \in {"cancel", "resume"} => status[on[a]] # "none"
          /\ pc[a] \in Written \ Moved => status[on[a]] # "none"
          /\ \A s \in todo[a] : status[s] # "none"
    /\ \A s \in Subs :
          /\ session[s] = "paid" <=> state[s] # "none"
          /\ status[s] # "none" => state[s] # "none"
          /\ \A n \in Notices : mail[s][n] > 0 => state[s] # "none"

(* There is a notice for every handler at work on one. *)
At(s, n) == {b \in Actors : op[b] = n /\ on[b] = s}

Counted(s, n) == Cardinality(At(s, n)) <= mail[s][n]

CountInv == \A s \in Subs, n \in Notices : Counted(s, n)

HeldInv == \A a \in Actors : op[a] \in Notices => mail[on[a]][op[a]] > 0

(* What was ended at Stripe is ended for good: an actor that read so, that *)
(* was refused for it or that ended it knows.                              *)
EndedInv ==
    \A a \in Actors :
        /\ pc[a] \in Reading /\ seen[a].state = "canceled" => state[on[a]] = "canceled"
        /\ pc[a] = "rowOther" => state[target[a]] = "canceled"
        /\ pc[a] \in {"reread", "apply"} /\ op[a] # "change" => state[on[a]] = "canceled"
        /\ pc[a] = "apply" /\ op[a] # "change" => seen[a].state = "canceled"

(* Without a refused renewal, a plan that is live has the active row, or   *)
(* the notice of its checkout is still to be handled.                      *)
BillInv ==
    ~dunned =>
        /\ \A s \in Subs : state[s] # "past_due" /\ mail[s]["unpaid"] = 0
        /\ \A a \in Actors : op[a] # "unpaid" /\ seen[a].state # "past_due"
        /\ \A s \in Subs : state[s] = "active" => Active(s) \/ mail[s]["checkout"] > 0
        /\ \A a \in Actors : op[a] = "checkout" /\ pc[a] \in Written /\ state[on[a]] = "active"
              => Active(on[a])

AloneInv == ~overlapped => \A a, b \in Actors : pc[a] # "idle" /\ pc[b] # "idle" => a = b

(* A notice of the kind is still to be handled from before the places L. *)
Due(s, n, L) ==
    /\ mail[s][n] > 0
    /\ \A a \in Actors : op[a] = n /\ on[a] = s /\ pc[a] \in L => mail[s][n] > 1

(* What an actor read is not what Stripe says now. *)
Outdated(a) ==
    \/ seen[a].state # state[on[a]]
    \/ state[on[a]] \in Live /\ ~(seen[a].atEnd <=> on[a] \in atEnd)

SeenOf(a) ==
    pc[a] \in Reading /\ Outdated(a) =>
        /\ mail[on[a]]["change"] > 0
        /\ op[a] = "change" => mail[on[a]]["change"] > 1

SeenInv == ~overlapped => \A a \in Actors : SeenOf(a)

StaleOf(s) == Active(s) /\ state[s] \notin Live => Due(s, "change", Written)

StaleInv == ~overlapped => \A s \in Subs : StaleOf(s)

(* A row that does not say what Stripe says. *)
Differs(s) ==
    \/ status[s] # MapStripeStatus(state[s])
    \/ state[s] \in Live /\ ~(s \in cancelled <=> s \in atEnd)

RowOf(s) ==
    /\ state[s] # "none" /\ status[s] = "none" => mail[s]["checkout"] > 0
    /\ status[s] # "none" /\ Differs(s) => Due(s, "change", Written)

MarkOf(a) ==
    /\ pc[a] = "markCancelled" => on[a] \in atEnd \/ mail[on[a]]["change"] > 0
    /\ pc[a] = "markResumed" => on[a] \notin atEnd \/ mail[on[a]]["change"] > 0

RowsInv ==
    ~overlapped /\ ~misled =>
        (\A s \in Subs : RowOf(s)) /\ (\A a \in Actors : MarkOf(a))

(* A level or a team that does not follow the rows is put right by the     *)
(* handler of a notice, which will find a row.                             *)
WillSync(s, n, L) == Due(s, n, L) /\ (n = "checkout" \/ status[s] # "none")

Owed(L) == \E s \in Subs, n \in Notices : WillSync(s, n, L)

AimOf(a) ==
    /\ pc[a] = "level" => target[a] = Tier /\ level # Tier
    /\ pc[a] = "members" => target[a] = level

TierInv ==
    ~overlapped /\ ~misled =>
        /\ level # Tier => Owed(Levelled)
        /\ ~(team <=> level \in TeamPlans) => Owed(Moved)
        /\ \A a \in Actors : AimOf(a)

-----------------------------------------------------------------------------
(* What a notice adds to the mail, and what a handler that is through      *)
(* takes from it.                                                          *)
More(s, kinds) ==
    /\ mail' \in [Subs -> [Notices -> Nat]]
    /\ \A o \in Subs, n \in Notices :
          mail'[o][n] = IF o = s /\ n \in kinds THEN mail[o][n] + 1 ELSE mail[o][n]

Fewer(s, m) ==
    /\ mail' \in [Subs -> [Notices -> Nat]]
    /\ \A o \in Subs, n \in Notices :
          mail'[o][n] = IF o = s /\ n = m THEN mail[o][n] - 1 ELSE mail[o][n]

(* Notify adds one notice of each kind. *)
LEMMA NotifyMore ==
  ASSUME TypeInv, NEW s \in Subs, NEW kinds \in SUBSET Notices, Notify(s, kinds)
  PROVE  More(s, kinds)
  <1> DEFINE new == [n \in Notices |-> IF n \in kinds THEN mail[s][n] + 1 ELSE mail[s][n]]
  <1>1. mail \in [Subs -> [Notices -> Nat]]
    BY DEF TypeInv, TypeOK
  <1>2. mail' = [mail EXCEPT ![s] = new]
    BY DEF Notify
  <1>3. /\ new \in [Notices -> Nat]
        /\ \A n \in Notices : new[n] = IF n \in kinds THEN mail[s][n] + 1 ELSE mail[s][n]
    BY <1>1
  <1> HIDE DEF new
  <1> QED
    BY <1>1, <1>2, <1>3 DEF More

(* No notice is taken away by what adds some. *)
LEMMA MoreMail ==
  ASSUME TypeInv, NEW s \in Subs, NEW kinds, More(s, kinds)
  PROVE  \A q \in Subs, n \in Notices : mail'[q][n] \in Nat /\ mail'[q][n] >= mail[q][n]
  <1> SUFFICES ASSUME NEW q \in Subs, NEW n \in Notices
               PROVE  mail'[q][n] \in Nat /\ mail'[q][n] >= mail[q][n]
    OBVIOUS
  <1>1. mail[q][n] \in Nat
    BY DEF TypeInv, TypeOK
  <1>2. mail'[q][n] \in {mail[q][n], mail[q][n] + 1}
    BY DEF More
  <1> QED
    BY <1>1, <1>2

(* Finish takes the notice away. *)
LEMMA FinishFewer ==
  ASSUME TypeInv, PlaceInv, HeldInv, NEW a \in Actors, Finish(a)
  PROVE  Fewer(on[a], op[a])
  <1>1. mail \in [Subs -> [Notices -> Nat]]
    BY DEF TypeInv, TypeOK
  <1>2. on[a] \in Subs /\ op[a] \in Notices /\ mail[on[a]][op[a]] > 0
    BY DEF Finish, PlaceInv, HeldInv
  <1>3. mail' = [mail EXCEPT ![on[a]] = [mail[on[a]] EXCEPT ![op[a]] = mail[on[a]][op[a]] - 1]]
    BY DEF Finish
  <1> DEFINE new == [mail[on[a]] EXCEPT ![op[a]] = mail[on[a]][op[a]] - 1]
  <1>4. /\ new \in [Notices -> Nat]
        /\ \A n \in Notices : new[n] = IF n = op[a] THEN mail[on[a]][n] - 1 ELSE mail[on[a]][n]
    BY <1>1, <1>2
  <1>5. mail' = [mail EXCEPT ![on[a]] = new]
    BY <1>3
  <1> HIDE DEF new
  <1> QED
    BY <1>1, <1>2, <1>4, <1>5 DEF Fewer

(* The level that is due is that of a plan, or none. *)
LEMMA TierType == Tier \in Subs \union {NoSub}
  BY DEF Tier

(* The level that is due is that of the row that is active. *)
LEMMA TierIsActive ==
  ASSUME TypeInv, NEW s \in Subs
  PROVE  Active(s) <=> Tier = s
  <1>1. ASSUME Active(s) PROVE Tier = s
    BY <1>1 DEF Tier, TypeInv, TypeOK
  <1>2. ASSUME Tier = s PROVE Active(s)
    BY <1>2, PlanAssumption DEF Tier
  <1> QED
    BY <1>1, <1>2

(* The rows keep their order when none is written, and when one is, unless *)
(* it becomes active beside another one.                                   *)
LEMMA RowsKept ==
  ASSUME RowsInOrder, UNCHANGED <<status, newer>>
  PROVE  RowsInOrder'
  BY DEF RowsInOrder, Active

(* A row that is written is the newest, and active only if no other is. *)
LEMMA RowWritten ==
  ASSUME TypeInv, NEW s \in Subs, NEW st, NEW ends, WriteRow(s, st, ends),
         st = "ACTIVE" => \A o \in Subs \ {s} : ~Active(o)
  PROVE  /\ RowsInOrder'
         /\ newer' \subseteq Subs \X Subs
         /\ cancelled' \subseteq Subs
         /\ status' = [status EXCEPT ![s] = st]
  <1> USE DEF TypeInv, TypeOK
  <1>1. /\ newer' \subseteq Subs \X Subs /\ cancelled' \subseteq Subs
        /\ status' = [status EXCEPT ![s] = st]
    BY DEF WriteRow, Touch
  <1>2. RowsInOrder'
    <2>2. \A o \in Subs \ {s} : <<s, o>> \in newer' /\ <<o, s>> \notin newer'
      BY DEF WriteRow, Touch
    <2>3. \A o, q \in Subs \ {s} : <<q, o>> \in newer' <=> <<q, o>> \in newer
      BY DEF WriteRow, Touch
    <2>4. \A o \in Subs : status'[o] = IF o = s THEN st ELSE status[o]
      BY <1>1
    <2>5. ASSUME NEW q \in Subs, NEW o \in Subs, status'[q] = "ACTIVE", status'[o] = "ACTIVE"
          PROVE  q = o
      BY <2>4, <2>5 DEF RowsInOrder, Active
    <2>6. ASSUME NEW q \in Subs, NEW o \in Subs, q # o, status'[q] # "none", status'[o] # "none"
          PROVE  <<q, o>> \in newer' <=> <<o, q>> \notin newer'
      <3>1. CASE q = s \/ o = s
        BY <2>2, <2>6, <3>1
      <3>2. CASE q # s /\ o # s
        BY <2>3, <2>4, <2>6, <3>2 DEF RowsInOrder
      <3> QED
        BY <3>1, <3>2
    <2> HIDE DEF TypeInv, TypeOK
    <2> QED
      BY <2>5, <2>6 DEF RowsInOrder, Active
  <1> QED
    BY <1>1, <1>2

(* Handlers at work on a notice are finitely many. *)
LEMMA AtFinite ==
  ASSUME NEW s, NEW n
  PROVE  IsFiniteSet(At(s, n)) /\ Cardinality(At(s, n)) \in Nat
  <1>1. At(s, n) \subseteq Actors
    BY DEF At
  <1> QED
    BY <1>1, PlanAssumption, FS_Subset, FS_CardinalityType

(***************************************************************************)
(* What the steps do, alternative by alternative, as the proofs below use  *)
(* it.                                                                     *)
(***************************************************************************)
AllButActors == <<stripeVars, rowVars, tierVars, histVars>>

(* A request or a handler begins, at the place that fits what it does. *)
Begins(a, what, s, l) ==
    /\ UNCHANGED <<stripeVars, rowVars, tierVars, seen, todo, target, dunned, misled>>
    /\ pc[a] = "idle"
    /\ pc' = [pc EXCEPT ![a] = l] /\ op' = [op EXCEPT ![a] = what] /\ on' = [on EXCEPT ![a] = s]
    /\ overlapped' \in BOOLEAN /\ (overlapped => overlapped')
    /\ ~overlapped' => \A b \in Actors : pc[b] = "idle"
    /\ \/ what = "buy" /\ l = "open"
       \/ what = "cancel" /\ l = "stripeCancel" /\ status[s] # "none"
       \/ what = "resume" /\ l = "stripeResume" /\ status[s] # "none"
       \/ /\ what \in Notices /\ mail[s][what] > 0 /\ mail[s][what] > Cardinality(At(s, what))
          /\ \/ what = "checkout" /\ l = "readSub"
             \/ what = "change" /\ l = "reread"
             \/ what = "unpaid" /\ l = "unpaid"

(* Stripe does as it is asked, or has ended the subscription. *)
Accepts(a) ==
    /\ UNCHANGED <<session, state, rowVars, tierVars, seen, todo, target, histVars, op, on>>
    /\ on[a] \in Subs /\ state[on[a]] \in Live
    /\ \/ /\ pc[a] = "stripeCancel" /\ pc' = [pc EXCEPT ![a] = "markCancelled"]
          /\ atEnd' = atEnd \union {on[a]}
       \/ /\ pc[a] = "stripeResume" /\ pc' = [pc EXCEPT ![a] = "markResumed"]
          /\ atEnd' = atEnd \ {on[a]}

Declines(a) ==
    /\ UNCHANGED <<AllButActors, seen, todo, target, op, on>>
    /\ on[a] \in Subs /\ state[on[a]] \notin Live
    /\ pc[a] \in {"stripeCancel", "stripeResume"} /\ pc' = [pc EXCEPT ![a] = "reread"]

(* The row a request writes after Stripe took it keeps its status. *)
Marks(a) ==
    /\ UNCHANGED <<stripeVars, tierVars, histVars, status>> /\ Drop(a)
    /\ RowsInOrder' /\ newer' \subseteq Subs \X Subs
    /\ on[a] \in Subs
    /\ \/ pc[a] = "markCancelled" /\ cancelled' = cancelled \union {on[a]}
       \/ pc[a] = "markResumed" /\ cancelled' = cancelled \ {on[a]}

(* Another plan is ended at Stripe, or left; its row follows. *)
Ends(a, o) ==
    /\ UNCHANGED <<session, atEnd, rowVars, tierVars, seen, todo, histVars, op, on>>
    /\ pc[a] = "cancelOthers" /\ o \in todo[a] /\ state[o] \in Live
    /\ state' = [state EXCEPT ![o] = "canceled"]
    /\ pc' = [pc EXCEPT ![a] = "rowOther"]
    /\ target' = [target EXCEPT ![a] = o]

Skips(a, o) ==
    /\ UNCHANGED <<AllButActors, seen, target, pc, op, on>>
    /\ todo' = [todo EXCEPT ![a] = todo[a] \ {o}]

Closes(a) ==
    /\ UNCHANGED <<stripeVars, tierVars, seen, histVars>>
    /\ RowsInOrder' /\ newer' \subseteq Subs \X Subs
    /\ target[a] \in Subs /\ pc[a] = "rowOther" /\ Goto(a, "cancelOthers")
    /\ status' = [status EXCEPT ![target[a]] = "CANCELLED"]
    /\ cancelled' = cancelled \ {target[a]}
    /\ todo' = [todo EXCEPT ![a] = todo[a] \ {target[a]}]
    /\ target' = [target EXCEPT ![a] = NoSub]

(* A row is recorded from what was read; or the actor gives up, refused by *)
(* the index or failed.                                                    *)
Records(a) ==
    /\ UNCHANGED <<stripeVars, tierVars, histVars, seen, todo, target>>
    /\ on[a] \in Subs /\ pc[a] \in {"cancelOthers", "apply"} /\ seen[a].state # "none"
    /\ pc[a] = "apply" => status[on[a]] # "none"
    /\ Goto(a, "tier")
    /\ status' = [status EXCEPT ![on[a]] = MapStripeStatus(seen[a].state)]
    /\ cancelled' = IF seen[a].atEnd THEN cancelled \union {on[a]} ELSE cancelled \ {on[a]}
    /\ RowsInOrder' /\ newer' \subseteq Subs \X Subs

GivesUp(a) == UNCHANGED AllButActors /\ pc[a] # "idle" /\ Drop(a)

(* A notice finds no row, or its row is marked unpaid. *)
FindsNoRow(a) ==
    /\ UNCHANGED <<AllButActors, seen, todo, target>>
    /\ op[a] \in {"change", "unpaid"} /\ pc[a] \in {"apply", "unpaid"}
    /\ on[a] \in Subs /\ status[on[a]] = "none"
    /\ Goto(a, "finish")

Unpaid(a) ==
    /\ UNCHANGED <<stripeVars, tierVars, seen, todo, target, dunned, overlapped, cancelled>>
    /\ misled' \in BOOLEAN /\ (misled => misled') /\ (~misled' => state[on[a]] = "past_due")
    /\ RowsInOrder' /\ newer' \subseteq Subs \X Subs
    /\ on[a] \in Subs /\ pc[a] = "unpaid" /\ status[on[a]] # "none"
    /\ Goto(a, "tier")
    /\ status' = [status EXCEPT ![on[a]] = "PAST_DUE"]

(* A handler that wrote all it had to is left with its notice; a request   *)
(* has answered.                                                           *)
Moves(a) ==
    /\ UNCHANGED <<stripeVars, rowVars, level, histVars>>
    /\ pc[a] = "members" /\ team' \in BOOLEAN /\ (team' <=> target[a] \in TeamPlans)

MovesOn(a) ==
    Moves(a) /\ op[a] \in Notices /\ Goto(a, "finish") /\ UNCHANGED <<seen, todo, target>>

Answers(a) == Moves(a) /\ op[a] \notin Notices /\ Drop(a)

Does ==
    \/ \E s \in Subs :
          \/ Pay(s) /\ More(s, {"checkout"})
          \/ RenewalFails(s) /\ More(s, {"change", "unpaid"})
          \/ (RenewalPaid(s) \/ End(s) \/ Portal(s)) /\ More(s, {"change"})
    \/ \E a \in Actors, s \in Subs :
          \/ \E l \in PCs, what \in Notices \union {"buy", "cancel", "resume"} :
                Begins(a, what, s, l)
          \/ Ends(a, s) /\ More(s, {"change"})
          \/ Skips(a, s)
    \/ \E a \in Actors :
          \/ OpenSession(a)
          \/ Accepts(a) /\ More(on[a], {"change"})
          \/ Accepts(a) /\ More(on[a], {}) /\ atEnd' = atEnd
          \/ Declines(a) \/ Marks(a) \/ GivesUp(a)
          \/ Finish(a) /\ Fewer(on[a], op[a])
          \/ ReadSub(a) \/ FindOthers(a) \/ Closes(a) \/ Records(a) \/ FindsNoRow(a) \/ Unpaid(a)
          \/ ReadTier(a) \/ WriteLevel(a) \/ ReadTeam(a) \/ MovesOn(a) \/ Answers(a)
    \/ UNCHANGED vars

(* A request or a handler begins as Begins says. *)
LEMMA BeginDoes ==
  ASSUME NEW a \in Actors, NEW s \in Subs, NEW what, NEW l, Begin(a, what, s, l)
  PROVE  /\ UNCHANGED <<seen, todo, target, dunned, misled>> /\ pc[a] = "idle"
         /\ pc' = [pc EXCEPT ![a] = l] /\ op' = [op EXCEPT ![a] = what]
         /\ on' = [on EXCEPT ![a] = s]
         /\ overlapped' \in BOOLEAN /\ (overlapped => overlapped')
         /\ ~overlapped' => \A b \in Actors : pc[b] = "idle"
  <1>1. overlapped' = (overlapped \/ \E b \in Actors : pc[b] # "idle")
    BY Zenon DEF Begin
  <1>2. CASE overlapped \/ \E b \in Actors : pc[b] # "idle"
    BY <1>1, <1>2 DEF Begin
  <1>3. CASE ~(overlapped \/ \E b \in Actors : pc[b] # "idle")
    BY <1>1, <1>3 DEF Begin
  <1> QED
    BY <1>2, <1>3

(* Which notice is taken, and where its handler begins. *)
LEMMA TakeDoes ==
  ASSUME TypeInv, NEW a \in Actors, NEW s \in Subs, NEW n \in Notices, Take(a, s, n)
  PROVE  \E l \in PCs : Begins(a, n, s, l)
  <1>1. mail[s][n] \in Nat /\ Cardinality(At(s, n)) \in Nat
    BY AtFinite DEF TypeInv, TypeOK
  <1>2. mail[s][n] > Cardinality(At(s, n)) /\ mail[s][n] > 0
    BY <1>1 DEF Take, At
  <1>3. UNCHANGED <<stripeVars, rowVars, tierVars>>
    BY DEF Take
  <1>4. CASE n = "checkout"
    <2>1. Begin(a, n, s, "readSub")
      BY <1>4 DEF Take
    <2>2. Begins(a, n, s, "readSub")
      BY <1>2, <1>3, <1>4, <2>1, BeginDoes DEF Begins
    <2> QED
      BY <2>2 DEF PCs
  <1>5. CASE n = "change"
    <2>1. Begin(a, n, s, "reread")
      BY <1>5 DEF Take
    <2>2. Begins(a, n, s, "reread")
      BY <1>2, <1>3, <1>5, <2>1, BeginDoes DEF Begins
    <2> QED
      BY <2>2 DEF PCs
  <1>6. CASE n = "unpaid"
    <2>1. Begin(a, n, s, "unpaid")
      BY <1>6 DEF Take
    <2>2. Begins(a, n, s, "unpaid")
      BY <1>2, <1>3, <1>6, <2>1, BeginDoes DEF Begins
    <2> QED
      BY <2>2 DEF PCs
  <1> QED
    BY <1>4, <1>5, <1>6 DEF Notices

(* What becomes of a request to Stripe. *)
LEMMA AskDoes ==
  ASSUME TypeInv, PlaceInv, NEW a \in Actors, AskStripe(a)
  PROVE  \/ Accepts(a) /\ More(on[a], {"change"})
         \/ Accepts(a) /\ More(on[a], {}) /\ atEnd' = atEnd
         \/ Declines(a)
  <1> USE DEF Accepts, Declines, AllButActors, stripeVars
  <1>1. UNCHANGED <<session, state, rowVars, tierVars, seen, todo, target, histVars, op, on>>
    BY DEF AskStripe, Goto
  <1>2. on[a] \in Subs
    BY DEF AskStripe, PlaceInv
  <1>3. CASE state[on[a]] \notin Live
    BY <1>1, <1>2, <1>3 DEF AskStripe, Goto
  <1>4. CASE state[on[a]] \in Live
    <2> DEFINE ends == pc[a] = "stripeCancel"
    <2>1. Accepts(a)
      BY <1>1, <1>2, <1>4 DEF AskStripe, Goto
    <2>2. Notify(on[a], IF ends = (on[a] \in atEnd) THEN {} ELSE {"change"})
      BY <1>4, Zenon DEF AskStripe
    <2>3. CASE ends <=> on[a] \in atEnd
      <3>1. Notify(on[a], {})
        BY <2>2, <2>3
      <3>2. atEnd' = atEnd
        <4>1. CASE ends
          <5>1. on[a] \in atEnd /\ atEnd' = atEnd \union {on[a]}
            BY <2>1, <2>3, <4>1
          <5> QED
            BY <5>1
        <4>2. CASE ~ends
          <5>1. on[a] \notin atEnd /\ atEnd' = atEnd \ {on[a]}
            BY <2>1, <2>3, <4>2
          <5> QED
            BY <5>1
        <4> QED
          BY <4>1, <4>2
      <3>3. {} \in SUBSET Notices
        OBVIOUS
      <3>4. More(on[a], {})
        BY <1>2, <3>1, <3>3, NotifyMore
      <3> QED
        BY <2>1, <3>2, <3>4
    <2>4. CASE ~(ends <=> on[a] \in atEnd)
      <3>1. Notify(on[a], {"change"})
        BY <2>2, <2>4
      <3> QED
        BY <1>2, <2>1, <3>1, NotifyMore DEF Notices
    <2> QED
      BY <2>3, <2>4
  <1> QED
    BY <1>3, <1>4

(* What becomes of a row that is active beside the one being recorded. *)
LEMMA CancelDoes ==
  ASSUME TypeInv, PlaceInv, NEW a \in Actors, NEW o \in Subs, CancelOther(a, o)
  PROVE  (Ends(a, o) /\ More(o, {"change"})) \/ Skips(a, o)
  <1>1. CASE state[o] \in Live
    <2>1. More(o, {"change"})
      BY <1>1, NotifyMore DEF CancelOther, Notices
    <2> QED
      BY <1>1, <2>1 DEF CancelOther, Goto, Ends
  <1>2. CASE state[o] \notin Live
    BY <1>2 DEF CancelOther, Skips, AllButActors, stripeVars
  <1> QED
    BY <1>1, <1>2

(* The row is written, or was as it should be. *)
LEMMA MarkDoes ==
  ASSUME TypeInv, PlaceInv, NEW a \in Actors, MarkRow(a)
  PROVE  Marks(a)
  <1> USE DEF Marks
  <1>1. /\ UNCHANGED <<stripeVars, tierVars, histVars>> /\ Drop(a)
        /\ on[a] \in Subs /\ pc[a] \in {"markCancelled", "markResumed"}
    BY DEF MarkRow, PlaceInv
  <1>2. CASE UNCHANGED rowVars /\ pc[a] # "markCancelled" /\ on[a] \notin cancelled
    <2>1. RowsInOrder' /\ newer' \subseteq Subs \X Subs /\ UNCHANGED status
      BY <1>2, RowsKept DEF rowVars, TypeInv, TypeOK
    <2>2. pc[a] = "markResumed" /\ cancelled' = cancelled \ {on[a]}
      BY <1>1, <1>2 DEF rowVars
    <2> QED
      BY <1>1, <2>1, <2>2
  <1>3. CASE WriteRow(on[a], status[on[a]], pc[a] = "markCancelled")
    <2> DEFINE ends == pc[a] = "markCancelled"
    <2>1. WriteRow(on[a], status[on[a]], ends)
      BY <1>3
    <2>2. status[on[a]] = "ACTIVE" => \A o \in Subs \ {on[a]} : ~Active(o)
      BY <1>1 DEF RowsInOrder, Active, TypeInv, TypeOK
    <2> HIDE DEF ends
    <2>3. RowsInOrder' /\ newer' \subseteq Subs \X Subs
          /\ status' = [status EXCEPT ![on[a]] = status[on[a]]]
      BY <1>1, <2>1, <2>2, RowWritten
    <2>4. cancelled' = IF ends THEN cancelled \union {on[a]} ELSE cancelled \ {on[a]}
      BY <2>1 DEF WriteRow
    <2>5. status' = status
      BY <1>1, <2>3 DEF TypeInv, TypeOK
    <2> QED
      BY <1>1, <2>3, <2>4, <2>5 DEF ends
  <1> QED
    BY <1>2, <1>3 DEF MarkRow

(* A row is recorded, or the index refuses it. *)
LEMMA UpsertDoes ==
  ASSUME TypeInv, PlaceInv, NEW a \in Actors, Upsert(a)
  PROVE  Records(a) \/ GivesUp(a)
  <1>1. /\ UNCHANGED <<stripeVars, tierVars, histVars>>
        /\ on[a] \in Subs /\ pc[a] \in {"cancelOthers", "apply"} /\ seen[a].state # "none"
        /\ pc[a] = "apply" => status[on[a]] # "none"
    BY DEF Upsert, PlaceInv, Reading
  <1>2. CASE Drop(a) /\ UNCHANGED rowVars
    BY <1>1, <1>2 DEF GivesUp, AllButActors
  <1>3. CASE /\ ~IndexRefuses(on[a], MapStripeStatus(seen[a].state))
             /\ WriteRow(on[a], MapStripeStatus(seen[a].state), seen[a].atEnd)
             /\ Goto(a, "tier")
             /\ UNCHANGED <<seen, todo, target>>
    <2> DEFINE st == MapStripeStatus(seen[a].state)
    <2>1. st = "ACTIVE" => \A o \in Subs \ {on[a]} : ~Active(o)
      BY <1>3 DEF IndexRefuses
    <2>2. WriteRow(on[a], st, seen[a].atEnd)
      BY <1>3
    <2> HIDE DEF st
    <2>3. RowsInOrder' /\ newer' \subseteq Subs \X Subs /\ status' = [status EXCEPT ![on[a]] = st]
      BY <1>1, <2>1, <2>2, RowWritten
    <2>4. cancelled' = IF seen[a].atEnd THEN cancelled \union {on[a]} ELSE cancelled \ {on[a]}
      BY <2>2 DEF WriteRow
    <2> USE DEF st
    <2> QED
      BY <1>1, <1>3, <2>3, <2>4 DEF Records
  <1> QED
    BY <1>2, <1>3 DEF Upsert

(* The row of a plan that was ended is closed. *)
LEMMA RowOtherDoes ==
  ASSUME TypeInv, PlaceInv, NEW a \in Actors, RowOther(a)
  PROVE  Closes(a)
  <1> DEFINE ends == FALSE
  <1>1. /\ UNCHANGED <<stripeVars, tierVars, seen, histVars>>
        /\ target[a] \in Subs /\ pc[a] = "rowOther" /\ Goto(a, "cancelOthers")
        /\ todo' = [todo EXCEPT ![a] = todo[a] \ {target[a]}]
        /\ target' = [target EXCEPT ![a] = NoSub]
        /\ WriteRow(target[a], "CANCELLED", ends)
    BY DEF RowOther, PlaceInv
  <1>2. cancelled' = cancelled \ {target[a]}
    BY <1>1 DEF WriteRow
  <1> HIDE DEF ends
  <1>3. RowsInOrder' /\ newer' \subseteq Subs \X Subs
        /\ status' = [status EXCEPT ![target[a]] = "CANCELLED"]
    BY <1>1, RowWritten
  <1> QED
    BY <1>1, <1>2, <1>3 DEF Closes

(* The row of a payment that failed is marked. *)
LEMMA UnpaidDoes ==
  ASSUME TypeInv, PlaceInv, NEW a \in Actors, MarkUnpaid(a)
  PROVE  Unpaid(a)
  <1> DEFINE ends == on[a] \in cancelled
  <1>1. /\ UNCHANGED <<stripeVars, tierVars, seen, todo, target, dunned, overlapped>>
        /\ on[a] \in Subs /\ pc[a] = "unpaid" /\ Goto(a, "tier")
        /\ status[on[a]] # "none"
        /\ WriteRow(on[a], "PAST_DUE", ends)
    BY DEF MarkUnpaid, PlaceInv
  <1>2. misled' \in BOOLEAN /\ (misled => misled') /\ (~misled' => state[on[a]] = "past_due")
    <2>1. misled' = (misled \/ state[on[a]] # "past_due")
      BY Zenon DEF MarkUnpaid
    <2>2. CASE misled \/ state[on[a]] # "past_due"
      BY <2>1, <2>2
    <2>3. CASE ~(misled \/ state[on[a]] # "past_due")
      BY <2>1, <2>3
    <2> QED
      BY <2>2, <2>3
  <1>3. cancelled' = cancelled
    BY <1>1 DEF WriteRow, TypeInv, TypeOK
  <1> HIDE DEF ends
  <1>4. /\ RowsInOrder' /\ newer' \subseteq Subs \X Subs
        /\ status' = [status EXCEPT ![on[a]] = "PAST_DUE"]
    BY <1>1, RowWritten
  <1> QED
    BY <1>1, <1>2, <1>3, <1>4 DEF Unpaid

(* The team follows the level that was read. *)
LEMMA MoveDoes ==
  ASSUME NEW a \in Actors, MoveMembers(a)
  PROVE  MovesOn(a) \/ Answers(a)
  <1>1. team' = (target[a] \in TeamPlans)
    BY Zenon DEF MoveMembers
  <1>2. team' \in BOOLEAN
    <2>1. CASE target[a] \in TeamPlans
      BY <1>1, <2>1
    <2>2. CASE target[a] \notin TeamPlans
      BY <1>1, <2>2
    <2> QED
      BY <2>1, <2>2
  <1>3. team' <=> target[a] \in TeamPlans
    BY <1>1, Zenon
  <1>4. Moves(a)
    BY <1>2, <1>3 DEF MoveMembers, Moves
  <1> QED
    BY <1>4 DEF MoveMembers, Done, MovesOn, Answers

(* A notice of a plan without a row is left with its handler. *)
LEMMA NoRowDoes ==
  ASSUME TypeInv, PlaceInv, NEW a \in Actors, NoRow(a)
  PROVE  FindsNoRow(a)
  <1>1. /\ op[a] \in {"change", "unpaid"} /\ pc[a] \in {"apply", "unpaid"}
        /\ on[a] \in Subs /\ status[on[a]] = "none"
    BY DEF NoRow, PlaceInv
  <1> QED
    BY <1>1 DEF NoRow, Done, Notices, FindsNoRow, AllButActors

(* Every step does one of these. *)
LEMMA NextDoes ==
  ASSUME TypeInv, PlaceInv, HeldInv, [Next]_vars
  PROVE  Does
  <1> USE DEF Does
  <1>1. ASSUME NEW s \in Subs, Pay(s) \/ RenewalFails(s) \/ RenewalPaid(s) \/ End(s) \/ Portal(s)
        PROVE  Does
    <2>1. {"checkout"} \in SUBSET Notices /\ {"change"} \in SUBSET Notices
          /\ {"change", "unpaid"} \in SUBSET Notices
      BY DEF Notices
    <2>2. CASE Pay(s)
      BY <2>1, <2>2, NotifyMore DEF Pay
    <2>3. CASE RenewalFails(s)
      BY <2>1, <2>3, NotifyMore DEF RenewalFails, Change
    <2>4. CASE RenewalPaid(s)
      BY <2>1, <2>4, NotifyMore DEF RenewalPaid, Change
    <2>5. CASE End(s)
      BY <2>1, <2>5, NotifyMore DEF End, Change
    <2>6. CASE Portal(s)
      BY <2>1, <2>6, NotifyMore DEF Portal, Change
    <2> QED
      BY <1>1, <2>2, <2>3, <2>4, <2>5, <2>6
  <1>2. ASSUME NEW a \in Actors, NEW s \in Subs,
               CreateCheckout(a, s) \/ CancelPlan(a, s) \/ ResumePlan(a, s)
        PROVE  Does
    <2>1. CASE CreateCheckout(a, s)
      <3>1. Begins(a, "buy", s, "open")
        BY <2>1, BeginDoes DEF CreateCheckout, Begins
      <3> QED
        BY <3>1 DEF PCs
    <2>2. CASE CancelPlan(a, s)
      <3>1. Begins(a, "cancel", s, "stripeCancel")
        BY <2>2, BeginDoes DEF CancelPlan, Request, Newest, Begins
      <3> QED
        BY <3>1 DEF PCs
    <2>3. CASE ResumePlan(a, s)
      <3>1. Begins(a, "resume", s, "stripeResume")
        BY <2>3, BeginDoes DEF ResumePlan, Request, Newest, Begins
      <3> QED
        BY <3>1 DEF PCs
    <2> QED
      BY <1>2, <2>1, <2>2, <2>3
  <1>3. ASSUME NEW a \in Actors, NEW s \in Subs, NEW n \in Notices, Take(a, s, n) PROVE Does
    BY <1>3, TakeDoes
  <1>4. ASSUME NEW a \in Actors, Work(a) PROVE Does
    BY <1>4, AskDoes, MarkDoes, FinishFewer, RowOtherDoes, UpsertDoes, NoRowDoes, UnpaidDoes,
       MoveDoes, CancelDoes
    DEF Work
  <1>5. ASSUME NEW a \in Actors, Fail(a) PROVE Does
    BY <1>5 DEF Fail, GivesUp, AllButActors
  <1>6. ASSUME NEW a \in Actors, NEW o \in Subs, CancelOtherFails(a, o) PROVE Does
    BY <1>6 DEF CancelOtherFails, Skips, AllButActors
  <1> QED
    BY <1>1, <1>2, <1>3, <1>4, <1>5, <1>6 DEF Next

(* A handler at work has a notice. *)
LEMMA CountHeld ==
  ASSUME TypeInv, PlaceInv, CountInv
  PROVE  HeldInv
  <1> SUFFICES ASSUME NEW a \in Actors, op[a] \in Notices PROVE mail[on[a]][op[a]] > 0
    BY DEF HeldInv
  <1> DEFINE H == At(on[a], op[a])
  <1>1. on[a] \in Subs
    BY DEF PlaceInv, Notices
  <1>2. IsFiniteSet(H) /\ Cardinality(H) \in Nat
    BY AtFinite
  <1>3. a \in H
    BY DEF At
  <1>4. Cardinality(H) # 0
    BY <1>2, <1>3, FS_EmptySet
  <1>5. Cardinality(H) <= mail[on[a]][op[a]]
    BY <1>1 DEF CountInv, Counted
  <1>6. mail[on[a]][op[a]] \in Nat
    BY <1>1 DEF TypeInv, TypeOK
  <1> HIDE DEF H
  <1> QED
    BY <1>2, <1>4, <1>5, <1>6

(* No handler begins for a notice of the kind, and none is taken away; the *)
(* steps that are not so.                                                  *)
Kept(s, n) == At(s, n)' \subseteq At(s, n) /\ mail'[s][n] >= mail[s][n]

(* A count holds while no handler begins and no notice is taken away. *)
LEMMA CountKept ==
  ASSUME TypeInv, TypeInv', NEW s \in Subs, NEW n \in Notices, Counted(s, n), Kept(s, n)
  PROVE  Counted(s, n)'
  <1>1. At(s, n)' \subseteq At(s, n) /\ mail'[s][n] >= mail[s][n]
    BY DEF Kept
  <1>2. IsFiniteSet(At(s, n)) /\ Cardinality(At(s, n)) \in Nat
    BY AtFinite
  <1>3. Cardinality(At(s, n)') <= Cardinality(At(s, n)) /\ Cardinality(At(s, n)') \in Nat
    BY <1>1, <1>2, FS_Subset, FS_CardinalityType
  <1>4. mail[s][n] \in Nat /\ mail'[s][n] \in Nat
    BY DEF TypeInv, TypeOK
  <1> QED
    BY <1>1, <1>2, <1>3, <1>4 DEF Counted

Takes ==
    \E a \in Actors :
        Finish(a) \/ \E s \in Subs, n \in Notices, l \in PCs : Begins(a, n, s, l)

(* A handler begins when a notice is left for it. *)
LEMMA CountBegins ==
  ASSUME TypeInv, PlaceInv, CountInv, NEW a \in Actors, NEW s \in Subs, NEW n \in Notices,
         NEW l \in PCs, Begins(a, n, s, l)
  PROVE  CountInv'
  <1> SUFFICES ASSUME NEW q \in Subs, NEW m \in Notices PROVE Counted(q, m)'
    BY DEF CountInv
  <1>1. UNCHANGED mail /\ mail[q][m] \in Nat /\ mail[s][n] \in Nat
    BY DEF Begins, stripeVars, TypeInv, TypeOK
  <1>2. mail[s][n] > Cardinality(At(s, n))
    BY DEF Begins, Notices
  <1>3. IsFiniteSet(At(q, m)) /\ Cardinality(At(q, m)) \in Nat
    BY AtFinite
  <1>4. op[a] \notin Notices /\ a \notin At(q, m)
    BY DEF Begins, PlaceInv, At, Notices
  <1>5. CASE q = s /\ m = n
    <2>1. At(q, m)' = At(q, m) \union {a}
      BY <1>5 DEF Begins, At, TypeInv, TypeOK
    <2>2. Cardinality(At(q, m)') = Cardinality(At(q, m)) + 1
      BY <1>3, <1>4, <2>1, FS_AddElement
    <2> QED
      BY <1>1, <1>2, <1>3, <1>5, <2>2 DEF Counted
  <1>6. CASE ~(q = s /\ m = n)
    <2>1. At(q, m)' = At(q, m)
      BY <1>4, <1>6 DEF Begins, At, TypeInv, TypeOK
    <2> QED
      BY <1>1, <2>1 DEF Counted, CountInv
  <1> QED
    BY <1>5, <1>6

(* A handler that is through leaves with its notice. *)
LEMMA CountFinish ==
  ASSUME TypeInv, PlaceInv, HeldInv, CountInv, NEW a \in Actors, Finish(a)
  PROVE  CountInv'
  <1> SUFFICES ASSUME NEW q \in Subs, NEW m \in Notices PROVE Counted(q, m)'
    BY DEF CountInv
  <1>1. Fewer(on[a], op[a]) /\ Drop(a)
    BY FinishFewer DEF Finish
  <1>2. IsFiniteSet(At(q, m)) /\ Cardinality(At(q, m)) \in Nat
    BY AtFinite
  <1>3. mail[q][m] \in Nat /\ Cardinality(At(q, m)) <= mail[q][m]
    BY DEF TypeInv, TypeOK, CountInv, Counted
  <1>4. At(q, m)' = At(q, m) \ {a}
    BY <1>1 DEF Drop, At, TypeInv, TypeOK, Notices
  <1>5. CASE q = on[a] /\ m = op[a]
    <2>1. Cardinality(At(q, m)') = Cardinality(At(q, m)) - 1
      BY <1>2, <1>4, <1>5, FS_RemoveElement DEF At
    <2> QED
      BY <1>1, <1>2, <1>3, <1>5, <2>1 DEF Fewer, Counted
  <1>6. CASE ~(q = on[a] /\ m = op[a])
    <2>1. At(q, m)' = At(q, m)
      BY <1>4, <1>6 DEF At
    <2> QED
      BY <1>1, <1>3, <1>6, <2>1 DEF Fewer, Counted
  <1> QED
    BY <1>5, <1>6

(* What happened is not forgotten. *)
Grows == (overlapped => overlapped') /\ (misled => misled') /\ (dunned => dunned')

(* The level that is due follows the rows that are active. *)
LEMMA TierKept ==
  ASSUME \A s \in Subs : Active(s)' <=> Active(s)
  PROVE  Tier' = Tier
  <1> DEFINE P(s) == Active(s)
  <1>1. \A s \in Subs : P(s)' <=> P(s)
    OBVIOUS
  <1>2. (CHOOSE s \in Subs : P(s)') = (CHOOSE s \in Subs : P(s))
    BY <1>1
  <1> QED
    BY <1>1, <1>2 DEF Tier

(* The steps that write a status, a level or a team, or what they are      *)
(* written from, and all the others.                                       *)
SyncStep(a) ==
    \/ Records(a) \/ Closes(a) \/ Unpaid(a) \/ FindsNoRow(a)
    \/ ReadTier(a) \/ WriteLevel(a) \/ ReadTeam(a) \/ MovesOn(a) \/ Answers(a)

SyncsNothing ==
    /\ UNCHANGED <<status, level, team>>
    /\ \A b \in Actors : pc'[b] \in {"level"} \union Levelled
          => pc[b] = pc'[b] /\ target'[b] = target[b]

(* A step keeps the types, one active row and the order of the rows. *)
LEMMA TypeStep ==
  ASSUME TypeInv, PlaceInv, HeldInv, [Next]_vars
  PROVE  TypeInv'
  <1> USE PlanAssumption DEF AllButActors, stripeVars, rowVars, tierVars, actorVars, histVars,
     TypeInv, TypeOK, Live, Notices, PCs, NothingSeen
  <1>1. ASSUME NEW s \in Subs, Pay(s), More(s, {"checkout"}) PROVE TypeInv'
    BY <1>1, RowsKept DEF Pay, More
  <1>2. ASSUME NEW s \in Subs, RenewalFails(s), More(s, {"change", "unpaid"}) PROVE TypeInv'
    BY <1>2, RowsKept DEF RenewalFails, Change, More
  <1>3. ASSUME NEW s \in Subs, RenewalPaid(s), More(s, {"change"}) PROVE TypeInv'
    BY <1>3, RowsKept DEF RenewalPaid, Change, More
  <1>4. ASSUME NEW s \in Subs, End(s), More(s, {"change"}) PROVE TypeInv'
    BY <1>4, RowsKept DEF End, Change, More
  <1>5. ASSUME NEW s \in Subs, Portal(s), More(s, {"change"}) PROVE TypeInv'
    BY <1>5, RowsKept DEF Portal, Change, More
  <1>6. ASSUME NEW a \in Actors, NEW s \in Subs, NEW l \in PCs,
              NEW what \in Notices \union {"buy", "cancel", "resume"}, Begins(a, what, s, l)
        PROVE  TypeInv'
    BY <1>6, RowsKept DEF Begins
  <1>7. ASSUME NEW a \in Actors, NEW s \in Subs, Ends(a, s), More(s, {"change"}) PROVE TypeInv'
    BY <1>7, RowsKept DEF Ends, More
  <1>8. ASSUME NEW a \in Actors, NEW s \in Subs, Skips(a, s) PROVE TypeInv'
    BY <1>8, RowsKept DEF Skips
  <1>9. ASSUME NEW a \in Actors, OpenSession(a) PROVE TypeInv'
    BY <1>9, RowsKept DEF OpenSession, Drop, PlaceInv
  <1>10. ASSUME NEW a \in Actors, Accepts(a), More(on[a], {"change"}) PROVE TypeInv'
    BY <1>10, RowsKept DEF Accepts, More
  <1>11. ASSUME NEW a \in Actors, Accepts(a), More(on[a], {}), atEnd' = atEnd PROVE TypeInv'
    BY <1>11, RowsKept DEF Accepts, More
  <1>12. ASSUME NEW a \in Actors, Declines(a) PROVE TypeInv'
    BY <1>12, RowsKept DEF Declines
  <1>13. ASSUME NEW a \in Actors, Marks(a) PROVE TypeInv'
    BY <1>13, RowsKept DEF Marks, Drop
  <1>14. ASSUME NEW a \in Actors, GivesUp(a) PROVE TypeInv'
    BY <1>14, RowsKept DEF GivesUp, Drop
  <1>15. ASSUME NEW a \in Actors, Finish(a), Fewer(on[a], op[a]) PROVE TypeInv'
    BY <1>15, RowsKept DEF Finish, Drop, Fewer
  <1>16. ASSUME NEW a \in Actors, ReadSub(a) PROVE TypeInv'
    BY <1>16, RowsKept DEF ReadSub, Goto, PlaceInv
  <1>17. ASSUME NEW a \in Actors, FindOthers(a) PROVE TypeInv'
    BY <1>17, RowsKept DEF FindOthers, Goto, Active
  <1>18. ASSUME NEW a \in Actors, Closes(a) PROVE TypeInv'
    BY <1>18, RowsKept DEF Closes, Goto
  <1>19. ASSUME NEW a \in Actors, Records(a) PROVE TypeInv'
    BY <1>19, RowsKept DEF Records, Goto, MapStripeStatus
  <1>20. ASSUME NEW a \in Actors, FindsNoRow(a) PROVE TypeInv'
    BY <1>20, RowsKept DEF FindsNoRow, Goto
  <1>21. ASSUME NEW a \in Actors, Unpaid(a) PROVE TypeInv'
    BY <1>21, RowsKept DEF Unpaid, Goto
  <1>22. ASSUME NEW a \in Actors, ReadTier(a) PROVE TypeInv'
    BY <1>22, RowsKept, TierType DEF ReadTier, Goto
  <1>23. ASSUME NEW a \in Actors, WriteLevel(a) PROVE TypeInv'
    BY <1>23, RowsKept DEF WriteLevel, Goto
  <1>24. ASSUME NEW a \in Actors, ReadTeam(a) PROVE TypeInv'
    BY <1>24, RowsKept DEF ReadTeam, Goto
  <1>25. ASSUME NEW a \in Actors, MovesOn(a) PROVE TypeInv'
    BY <1>25, RowsKept DEF MovesOn, Moves, Goto
  <1>26. ASSUME NEW a \in Actors, Answers(a) PROVE TypeInv'
    BY <1>26, RowsKept DEF Answers, Moves, Drop
  <1>27. CASE UNCHANGED vars
    BY <1>27, RowsKept DEF vars
  <1> HIDE DEF AllButActors, stripeVars, rowVars, tierVars, actorVars, histVars, TypeInv, TypeOK,
     Live, Notices, PCs, NothingSeen
  <1> QED
    BY NextDoes, <1>1, <1>2, <1>3, <1>4, <1>5, <1>6, <1>7, <1>8, <1>9, <1>10, <1>11, <1>12, <1>13,
       <1>14, <1>15, <1>16, <1>17, <1>18, <1>19, <1>20, <1>21, <1>22, <1>23, <1>24, <1>25, <1>26,
       <1>27 DEF Does

(* A step leads to a place that fits what the actor does. *)
LEMMA PlaceStep ==
  ASSUME TypeInv, PlaceInv, HeldInv, [Next]_vars
  PROVE  PlaceInv'
  <1> USE PlanAssumption DEF AllButActors, stripeVars, rowVars, tierVars, actorVars, histVars,
     TypeInv, TypeOK, Live, Notices, NothingSeen, PlaceInv, HeldInv, Reading, Written, Moved, Asked
  <1>1. ASSUME NEW s \in Subs, Pay(s), More(s, {"checkout"}) PROVE PlaceInv'
    BY <1>1 DEF Pay, More
  <1>2. ASSUME NEW s \in Subs, RenewalFails(s), More(s, {"change", "unpaid"}) PROVE PlaceInv'
    BY <1>2 DEF RenewalFails, Change, More
  <1>3. ASSUME NEW s \in Subs, RenewalPaid(s), More(s, {"change"}) PROVE PlaceInv'
    BY <1>3 DEF RenewalPaid, Change, More
  <1>4. ASSUME NEW s \in Subs, End(s), More(s, {"change"}) PROVE PlaceInv'
    BY <1>4 DEF End, Change, More
  <1>5. ASSUME NEW s \in Subs, Portal(s), More(s, {"change"}) PROVE PlaceInv'
    BY <1>5 DEF Portal, Change, More
  <1>6. ASSUME NEW a \in Actors, NEW s \in Subs, NEW l \in PCs,
              NEW what \in Notices \union {"buy", "cancel", "resume"}, Begins(a, what, s, l)
        PROVE  PlaceInv'
    BY <1>6 DEF Begins
  <1>7. ASSUME NEW a \in Actors, NEW s \in Subs, Ends(a, s), More(s, {"change"})
        PROVE  PlaceInv'
    BY <1>7 DEF Ends, More
  <1>8. ASSUME NEW a \in Actors, NEW s \in Subs, Skips(a, s) PROVE PlaceInv'
    BY <1>8 DEF Skips
  <1>9. ASSUME NEW a \in Actors, OpenSession(a) PROVE PlaceInv'
    BY <1>9 DEF OpenSession, Drop
  <1>10. ASSUME NEW a \in Actors, Accepts(a), More(on[a], {"change"}) PROVE PlaceInv'
    BY <1>10 DEF Accepts, More
  <1>11. ASSUME NEW a \in Actors, Accepts(a), More(on[a], {}), atEnd' = atEnd PROVE PlaceInv'
    BY <1>11 DEF Accepts, More
  <1>12. ASSUME NEW a \in Actors, Declines(a) PROVE PlaceInv'
    BY <1>12 DEF Declines
  <1>13. ASSUME NEW a \in Actors, Marks(a) PROVE PlaceInv'
    BY <1>13 DEF Marks, Drop
  <1>14. ASSUME NEW a \in Actors, GivesUp(a) PROVE PlaceInv'
    BY <1>14 DEF GivesUp, Drop
  <1>15. ASSUME NEW a \in Actors, Finish(a), Fewer(on[a], op[a]) PROVE PlaceInv'
    BY <1>15 DEF Finish, Drop, Fewer
  <1>16. ASSUME NEW a \in Actors, ReadSub(a) PROVE PlaceInv'
    BY <1>16 DEF ReadSub, Goto
  <1>17. ASSUME NEW a \in Actors, FindOthers(a) PROVE PlaceInv'
    BY <1>17 DEF FindOthers, Goto, Active
  <1>18. ASSUME NEW a \in Actors, Closes(a) PROVE PlaceInv'
    BY <1>18 DEF Closes, Goto
  <1>19. ASSUME NEW a \in Actors, Records(a) PROVE PlaceInv'
    BY <1>19 DEF Records, Goto, MapStripeStatus
  <1>20. ASSUME NEW a \in Actors, FindsNoRow(a) PROVE PlaceInv'
    BY <1>20 DEF FindsNoRow, Goto
  <1>21. ASSUME NEW a \in Actors, Unpaid(a) PROVE PlaceInv'
    BY <1>21 DEF Unpaid, Goto
  <1>22. ASSUME NEW a \in Actors, ReadTier(a) PROVE PlaceInv'
    BY <1>22 DEF ReadTier, Goto
  <1>23. ASSUME NEW a \in Actors, WriteLevel(a) PROVE PlaceInv'
    BY <1>23 DEF WriteLevel, Goto
  <1>24. ASSUME NEW a \in Actors, ReadTeam(a) PROVE PlaceInv'
    BY <1>24 DEF ReadTeam, Goto
  <1>25. ASSUME NEW a \in Actors, MovesOn(a) PROVE PlaceInv'
    BY <1>25 DEF MovesOn, Moves, Goto
  <1>26. ASSUME NEW a \in Actors, Answers(a) PROVE PlaceInv'
    BY <1>26 DEF Answers, Moves, Drop
  <1>27. CASE UNCHANGED vars
    BY <1>27 DEF vars
  <1> HIDE DEF AllButActors, stripeVars, rowVars, tierVars, actorVars, histVars, TypeInv, TypeOK,
     Live, Notices, NothingSeen, PlaceInv, HeldInv, Reading, Written, Moved, Asked
  <1> QED
    BY NextDoes, <1>1, <1>2, <1>3, <1>4, <1>5, <1>6, <1>7, <1>8, <1>9, <1>10, <1>11, <1>12, <1>13,
       <1>14, <1>15, <1>16, <1>17, <1>18, <1>19, <1>20, <1>21, <1>22, <1>23, <1>24, <1>25, <1>26,
       <1>27 DEF Does

(* A step takes or finishes a notice, or leaves the count of its handlers as good as it was. *)
LEMMA KeptOrTaken ==
  ASSUME TypeInv, PlaceInv, HeldInv, [Next]_vars, NEW q \in Subs, NEW m \in Notices
  PROVE  Kept(q, m) \/ Takes
  <1> USE PlanAssumption DEF AllButActors, stripeVars, rowVars, tierVars, actorVars, histVars,
     TypeInv, TypeOK, Notices, PlaceInv, Kept, At
  <1>1. ASSUME NEW s \in Subs, Pay(s), More(s, {"checkout"}) PROVE Kept(q, m) \/ Takes
    BY <1>1, MoreMail DEF Pay
  <1>2. ASSUME NEW s \in Subs, RenewalFails(s), More(s, {"change", "unpaid"})
        PROVE  Kept(q, m) \/ Takes
    BY <1>2, MoreMail DEF RenewalFails, Change
  <1>3. ASSUME NEW s \in Subs, RenewalPaid(s), More(s, {"change"}) PROVE Kept(q, m) \/ Takes
    BY <1>3, MoreMail DEF RenewalPaid, Change
  <1>4. ASSUME NEW s \in Subs, End(s), More(s, {"change"}) PROVE Kept(q, m) \/ Takes
    BY <1>4, MoreMail DEF End, Change
  <1>5. ASSUME NEW s \in Subs, Portal(s), More(s, {"change"}) PROVE Kept(q, m) \/ Takes
    BY <1>5, MoreMail DEF Portal, Change
  <1>6. ASSUME NEW a \in Actors, NEW s \in Subs, NEW l \in PCs,
              NEW what \in Notices \union {"buy", "cancel", "resume"}, Begins(a, what, s, l)
        PROVE  Kept(q, m) \/ Takes
    <2>1. CASE what \in Notices
      BY <1>6, <2>1 DEF Takes
    <2>2. CASE what \notin Notices
      BY <1>6, <2>2 DEF Begins
    <2> QED
      BY <2>1, <2>2
  <1>7. ASSUME NEW a \in Actors, NEW s \in Subs, Ends(a, s), More(s, {"change"})
        PROVE  Kept(q, m) \/ Takes
    BY <1>7, MoreMail DEF Ends
  <1>8. ASSUME NEW a \in Actors, NEW s \in Subs, Skips(a, s) PROVE Kept(q, m) \/ Takes
    BY <1>8 DEF Skips
  <1>9. ASSUME NEW a \in Actors, OpenSession(a) PROVE Kept(q, m) \/ Takes
    BY <1>9 DEF OpenSession, Drop
  <1>10. ASSUME NEW a \in Actors, Accepts(a), More(on[a], {"change"}) PROVE Kept(q, m) \/ Takes
    BY <1>10, MoreMail DEF Accepts
  <1>11. ASSUME NEW a \in Actors, Accepts(a), More(on[a], {}), atEnd' = atEnd
        PROVE  Kept(q, m) \/ Takes
    BY <1>11, MoreMail DEF Accepts
  <1>12. ASSUME NEW a \in Actors, Declines(a) PROVE Kept(q, m) \/ Takes
    BY <1>12 DEF Declines
  <1>13. ASSUME NEW a \in Actors, Marks(a) PROVE Kept(q, m) \/ Takes
    BY <1>13 DEF Marks, Drop
  <1>14. ASSUME NEW a \in Actors, GivesUp(a) PROVE Kept(q, m) \/ Takes
    BY <1>14 DEF GivesUp, Drop
  <1>15. ASSUME NEW a \in Actors, Finish(a), Fewer(on[a], op[a]) PROVE Kept(q, m) \/ Takes
    BY <1>15 DEF Takes
  <1>16. ASSUME NEW a \in Actors, ReadSub(a) PROVE Kept(q, m) \/ Takes
    BY <1>16 DEF ReadSub, Goto
  <1>17. ASSUME NEW a \in Actors, FindOthers(a) PROVE Kept(q, m) \/ Takes
    BY <1>17 DEF FindOthers, Goto, Active
  <1>18. ASSUME NEW a \in Actors, Closes(a) PROVE Kept(q, m) \/ Takes
    BY <1>18 DEF Closes, Goto
  <1>19. ASSUME NEW a \in Actors, Records(a) PROVE Kept(q, m) \/ Takes
    BY <1>19 DEF Records, Goto, MapStripeStatus
  <1>20. ASSUME NEW a \in Actors, FindsNoRow(a) PROVE Kept(q, m) \/ Takes
    BY <1>20 DEF FindsNoRow, Goto
  <1>21. ASSUME NEW a \in Actors, Unpaid(a) PROVE Kept(q, m) \/ Takes
    BY <1>21 DEF Unpaid, Goto
  <1>22. ASSUME NEW a \in Actors, ReadTier(a) PROVE Kept(q, m) \/ Takes
    BY <1>22 DEF ReadTier, Goto
  <1>23. ASSUME NEW a \in Actors, WriteLevel(a) PROVE Kept(q, m) \/ Takes
    BY <1>23 DEF WriteLevel, Goto
  <1>24. ASSUME NEW a \in Actors, ReadTeam(a) PROVE Kept(q, m) \/ Takes
    BY <1>24 DEF ReadTeam, Goto
  <1>25. ASSUME NEW a \in Actors, MovesOn(a) PROVE Kept(q, m) \/ Takes
    BY <1>25 DEF MovesOn, Moves, Goto
  <1>26. ASSUME NEW a \in Actors, Answers(a) PROVE Kept(q, m) \/ Takes
    BY <1>26 DEF Answers, Moves, Drop
  <1>27. CASE UNCHANGED vars
    BY <1>27 DEF vars
  <1> HIDE DEF AllButActors, stripeVars, rowVars, tierVars, actorVars, histVars, TypeInv, TypeOK,
     Notices, PlaceInv, Kept, At
  <1> QED
    BY NextDoes, <1>1, <1>2, <1>3, <1>4, <1>5, <1>6, <1>7, <1>8, <1>9, <1>10, <1>11, <1>12, <1>13,
       <1>14, <1>15, <1>16, <1>17, <1>18, <1>19, <1>20, <1>21, <1>22, <1>23, <1>24, <1>25, <1>26,
       <1>27 DEF Does

(* A step leaves a notice for every handler at work. *)
LEMMA CountStep ==
  ASSUME TypeInv, TypeInv', PlaceInv, HeldInv, CountInv, [Next]_vars
  PROVE  CountInv'
  <1>1. CASE Takes
    BY <1>1, CountBegins, CountFinish DEF Takes
  <1>2. CASE ~Takes
    <2>1. \A q \in Subs, m \in Notices : Kept(q, m)
      BY <1>2, KeptOrTaken
    <2> QED
      BY <2>1, CountKept DEF CountInv
  <1> QED
    BY <1>1, <1>2

(* What has ended stays ended. *)
LEMMA EndedStep ==
  ASSUME TypeInv, PlaceInv, HeldInv, EndedInv, [Next]_vars
  PROVE  EndedInv'
  <1> USE PlanAssumption DEF AllButActors, stripeVars, rowVars, tierVars, actorVars, histVars,
     TypeInv, TypeOK, Live, Notices, NothingSeen, PlaceInv, HeldInv, EndedInv, Reading, Asked
  <1>1. ASSUME NEW s \in Subs, Pay(s), More(s, {"checkout"}) PROVE EndedInv'
    BY <1>1 DEF Pay, More
  <1>2. ASSUME NEW s \in Subs, RenewalFails(s), More(s, {"change", "unpaid"}) PROVE EndedInv'
    BY <1>2 DEF RenewalFails, Change, More
  <1>3. ASSUME NEW s \in Subs, RenewalPaid(s), More(s, {"change"}) PROVE EndedInv'
    BY <1>3 DEF RenewalPaid, Change, More
  <1>4. ASSUME NEW s \in Subs, End(s), More(s, {"change"}) PROVE EndedInv'
    BY <1>4 DEF End, Change, More
  <1>5. ASSUME NEW s \in Subs, Portal(s), More(s, {"change"}) PROVE EndedInv'
    BY <1>5 DEF Portal, Change, More
  <1>6. ASSUME NEW a \in Actors, NEW s \in Subs, NEW l \in PCs,
              NEW what \in Notices \union {"buy", "cancel", "resume"}, Begins(a, what, s, l)
        PROVE  EndedInv'
    BY <1>6 DEF Begins
  <1>7. ASSUME NEW a \in Actors, NEW s \in Subs, Ends(a, s), More(s, {"change"})
        PROVE  EndedInv'
    BY <1>7 DEF Ends, More
  <1>8. ASSUME NEW a \in Actors, NEW s \in Subs, Skips(a, s) PROVE EndedInv'
    BY <1>8 DEF Skips
  <1>9. ASSUME NEW a \in Actors, OpenSession(a) PROVE EndedInv'
    BY <1>9 DEF OpenSession, Drop
  <1>10. ASSUME NEW a \in Actors, Accepts(a), More(on[a], {"change"}) PROVE EndedInv'
    BY <1>10 DEF Accepts, More
  <1>11. ASSUME NEW a \in Actors, Accepts(a), More(on[a], {}), atEnd' = atEnd PROVE EndedInv'
    BY <1>11 DEF Accepts, More
  <1>12. ASSUME NEW a \in Actors, Declines(a) PROVE EndedInv'
    BY <1>12 DEF Declines
  <1>13. ASSUME NEW a \in Actors, Marks(a) PROVE EndedInv'
    BY <1>13 DEF Marks, Drop
  <1>14. ASSUME NEW a \in Actors, GivesUp(a) PROVE EndedInv'
    BY <1>14 DEF GivesUp, Drop
  <1>15. ASSUME NEW a \in Actors, Finish(a), Fewer(on[a], op[a]) PROVE EndedInv'
    BY <1>15 DEF Finish, Drop, Fewer
  <1>16. ASSUME NEW a \in Actors, ReadSub(a) PROVE EndedInv'
    BY <1>16 DEF ReadSub, Goto
  <1>17. ASSUME NEW a \in Actors, FindOthers(a) PROVE EndedInv'
    BY <1>17 DEF FindOthers, Goto, Active
  <1>18. ASSUME NEW a \in Actors, Closes(a) PROVE EndedInv'
    BY <1>18 DEF Closes, Goto
  <1>19. ASSUME NEW a \in Actors, Records(a) PROVE EndedInv'
    BY <1>19 DEF Records, Goto, MapStripeStatus
  <1>20. ASSUME NEW a \in Actors, FindsNoRow(a) PROVE EndedInv'
    BY <1>20 DEF FindsNoRow, Goto
  <1>21. ASSUME NEW a \in Actors, Unpaid(a) PROVE EndedInv'
    BY <1>21 DEF Unpaid, Goto
  <1>22. ASSUME NEW a \in Actors, ReadTier(a) PROVE EndedInv'
    BY <1>22 DEF ReadTier, Goto
  <1>23. ASSUME NEW a \in Actors, WriteLevel(a) PROVE EndedInv'
    BY <1>23 DEF WriteLevel, Goto
  <1>24. ASSUME NEW a \in Actors, ReadTeam(a) PROVE EndedInv'
    BY <1>24 DEF ReadTeam, Goto
  <1>25. ASSUME NEW a \in Actors, MovesOn(a) PROVE EndedInv'
    BY <1>25 DEF MovesOn, Moves, Goto
  <1>26. ASSUME NEW a \in Actors, Answers(a) PROVE EndedInv'
    BY <1>26 DEF Answers, Moves, Drop
  <1>27. CASE UNCHANGED vars
    BY <1>27 DEF vars
  <1> HIDE DEF AllButActors, stripeVars, rowVars, tierVars, actorVars, histVars, TypeInv, TypeOK,
     Live, Notices, NothingSeen, PlaceInv, HeldInv, EndedInv, Reading, Asked
  <1> QED
    BY NextDoes, <1>1, <1>2, <1>3, <1>4, <1>5, <1>6, <1>7, <1>8, <1>9, <1>10, <1>11, <1>12, <1>13,
       <1>14, <1>15, <1>16, <1>17, <1>18, <1>19, <1>20, <1>21, <1>22, <1>23, <1>24, <1>25, <1>26,
       <1>27 DEF Does

(* A plan that is live keeps its active row or the notice of its checkout. *)
LEMMA BillStep ==
  ASSUME TypeInv, PlaceInv, HeldInv, EndedInv, BillInv, [Next]_vars
  PROVE  BillInv'
  <1> USE PlanAssumption DEF AllButActors, stripeVars, rowVars, tierVars, actorVars, histVars,
     TypeInv, TypeOK, Live, Notices, NothingSeen, PlaceInv, HeldInv, EndedInv, BillInv, Reading,
     Written, Active
  <1>1. ASSUME NEW s \in Subs, Pay(s), More(s, {"checkout"}) PROVE BillInv'
    BY <1>1 DEF Pay, More
  <1>2. ASSUME NEW s \in Subs, RenewalFails(s), More(s, {"change", "unpaid"}) PROVE BillInv'
    BY <1>2 DEF RenewalFails, Change, More
  <1>3. ASSUME NEW s \in Subs, RenewalPaid(s), More(s, {"change"}) PROVE BillInv'
    BY <1>3 DEF RenewalPaid, Change, More
  <1>4. ASSUME NEW s \in Subs, End(s), More(s, {"change"}) PROVE BillInv'
    BY <1>4 DEF End, Change, More
  <1>5. ASSUME NEW s \in Subs, Portal(s), More(s, {"change"}) PROVE BillInv'
    BY <1>5 DEF Portal, Change, More
  <1>6. ASSUME NEW a \in Actors, NEW s \in Subs, NEW l \in PCs,
              NEW what \in Notices \union {"buy", "cancel", "resume"}, Begins(a, what, s, l)
        PROVE  BillInv'
    BY <1>6 DEF Begins
  <1>7. ASSUME NEW a \in Actors, NEW s \in Subs, Ends(a, s), More(s, {"change"}) PROVE BillInv'
    BY <1>7 DEF Ends, More
  <1>8. ASSUME NEW a \in Actors, NEW s \in Subs, Skips(a, s) PROVE BillInv'
    BY <1>8 DEF Skips
  <1>9. ASSUME NEW a \in Actors, OpenSession(a) PROVE BillInv'
    BY <1>9 DEF OpenSession, Drop
  <1>10. ASSUME NEW a \in Actors, Accepts(a), More(on[a], {"change"}) PROVE BillInv'
    BY <1>10 DEF Accepts, More
  <1>11. ASSUME NEW a \in Actors, Accepts(a), More(on[a], {}), atEnd' = atEnd PROVE BillInv'
    BY <1>11 DEF Accepts, More
  <1>12. ASSUME NEW a \in Actors, Declines(a) PROVE BillInv'
    BY <1>12 DEF Declines
  <1>13. ASSUME NEW a \in Actors, Marks(a) PROVE BillInv'
    BY <1>13 DEF Marks, Drop
  <1>14. ASSUME NEW a \in Actors, GivesUp(a) PROVE BillInv'
    BY <1>14 DEF GivesUp, Drop
  <1>15. ASSUME NEW a \in Actors, Finish(a), Fewer(on[a], op[a]) PROVE BillInv'
    BY <1>15 DEF Finish, Drop, Fewer
  <1>16. ASSUME NEW a \in Actors, ReadSub(a) PROVE BillInv'
    BY <1>16 DEF ReadSub, Goto
  <1>17. ASSUME NEW a \in Actors, FindOthers(a) PROVE BillInv'
    BY <1>17 DEF FindOthers, Goto, Active
  <1>18. ASSUME NEW a \in Actors, Closes(a) PROVE BillInv'
    BY <1>18 DEF Closes, Goto
  <1>19. ASSUME NEW a \in Actors, Records(a) PROVE BillInv'
    BY <1>19 DEF Records, Goto, MapStripeStatus
  <1>20. ASSUME NEW a \in Actors, FindsNoRow(a) PROVE BillInv'
    BY <1>20 DEF FindsNoRow, Goto
  <1>21. ASSUME NEW a \in Actors, Unpaid(a) PROVE BillInv'
    BY <1>21 DEF Unpaid, Goto
  <1>22. ASSUME NEW a \in Actors, ReadTier(a) PROVE BillInv'
    BY <1>22 DEF ReadTier, Goto
  <1>23. ASSUME NEW a \in Actors, WriteLevel(a) PROVE BillInv'
    BY <1>23 DEF WriteLevel, Goto
  <1>24. ASSUME NEW a \in Actors, ReadTeam(a) PROVE BillInv'
    BY <1>24 DEF ReadTeam, Goto
  <1>25. ASSUME NEW a \in Actors, MovesOn(a) PROVE BillInv'
    BY <1>25 DEF MovesOn, Moves, Goto
  <1>26. ASSUME NEW a \in Actors, Answers(a) PROVE BillInv'
    BY <1>26 DEF Answers, Moves, Drop
  <1>27. CASE UNCHANGED vars
    BY <1>27 DEF vars
  <1> HIDE DEF AllButActors, stripeVars, rowVars, tierVars, actorVars, histVars, TypeInv, TypeOK,
     Live, Notices, NothingSeen, PlaceInv, HeldInv, EndedInv, BillInv, Reading, Written, Active
  <1> QED
    BY NextDoes, <1>1, <1>2, <1>3, <1>4, <1>5, <1>6, <1>7, <1>8, <1>9, <1>10, <1>11, <1>12, <1>13,
       <1>14, <1>15, <1>16, <1>17, <1>18, <1>19, <1>20, <1>21, <1>22, <1>23, <1>24, <1>25, <1>26,
       <1>27 DEF Does

(* Actors that never overlapped are one at a time. *)
LEMMA AloneStep ==
  ASSUME TypeInv, PlaceInv, HeldInv, AloneInv, [Next]_vars
  PROVE  AloneInv'
  <1> USE PlanAssumption DEF AllButActors, stripeVars, rowVars, tierVars, actorVars, histVars,
     TypeInv, TypeOK, Live, Notices, AloneInv
  <1>1. ASSUME NEW s \in Subs, Pay(s), More(s, {"checkout"}) PROVE AloneInv'
    BY <1>1 DEF Pay, More
  <1>2. ASSUME NEW s \in Subs, RenewalFails(s), More(s, {"change", "unpaid"}) PROVE AloneInv'
    BY <1>2 DEF RenewalFails, Change, More
  <1>3. ASSUME NEW s \in Subs, RenewalPaid(s), More(s, {"change"}) PROVE AloneInv'
    BY <1>3 DEF RenewalPaid, Change, More
  <1>4. ASSUME NEW s \in Subs, End(s), More(s, {"change"}) PROVE AloneInv'
    BY <1>4 DEF End, Change, More
  <1>5. ASSUME NEW s \in Subs, Portal(s), More(s, {"change"}) PROVE AloneInv'
    BY <1>5 DEF Portal, Change, More
  <1>6. ASSUME NEW a \in Actors, NEW s \in Subs, NEW l \in PCs,
              NEW what \in Notices \union {"buy", "cancel", "resume"}, Begins(a, what, s, l)
        PROVE  AloneInv'
    BY <1>6 DEF Begins
  <1>7. ASSUME NEW a \in Actors, NEW s \in Subs, Ends(a, s), More(s, {"change"})
        PROVE  AloneInv'
    BY <1>7 DEF Ends, More
  <1>8. ASSUME NEW a \in Actors, NEW s \in Subs, Skips(a, s) PROVE AloneInv'
    BY <1>8 DEF Skips
  <1>9. ASSUME NEW a \in Actors, OpenSession(a) PROVE AloneInv'
    BY <1>9 DEF OpenSession, Drop
  <1>10. ASSUME NEW a \in Actors, Accepts(a), More(on[a], {"change"}) PROVE AloneInv'
    BY <1>10 DEF Accepts
  <1>11. ASSUME NEW a \in Actors, Accepts(a), More(on[a], {}), atEnd' = atEnd PROVE AloneInv'
    BY <1>11 DEF Accepts
  <1>12. ASSUME NEW a \in Actors, Declines(a) PROVE AloneInv'
    BY <1>12 DEF Declines
  <1>13. ASSUME NEW a \in Actors, Marks(a) PROVE AloneInv'
    BY <1>13 DEF Marks, Drop
  <1>14. ASSUME NEW a \in Actors, GivesUp(a) PROVE AloneInv'
    BY <1>14 DEF GivesUp, Drop
  <1>15. ASSUME NEW a \in Actors, Finish(a), Fewer(on[a], op[a]) PROVE AloneInv'
    BY <1>15 DEF Finish, Drop, Fewer
  <1>16. ASSUME NEW a \in Actors, ReadSub(a) PROVE AloneInv'
    BY <1>16 DEF ReadSub, Goto
  <1>17. ASSUME NEW a \in Actors, FindOthers(a) PROVE AloneInv'
    BY <1>17 DEF FindOthers, Goto, Active
  <1>18. ASSUME NEW a \in Actors, Closes(a) PROVE AloneInv'
    BY <1>18 DEF Closes, Goto
  <1>19. ASSUME NEW a \in Actors, Records(a) PROVE AloneInv'
    BY <1>19 DEF Records, Goto, MapStripeStatus
  <1>20. ASSUME NEW a \in Actors, FindsNoRow(a) PROVE AloneInv'
    BY <1>20 DEF FindsNoRow, Goto
  <1>21. ASSUME NEW a \in Actors, Unpaid(a) PROVE AloneInv'
    BY <1>21 DEF Unpaid, Goto
  <1>22. ASSUME NEW a \in Actors, ReadTier(a) PROVE AloneInv'
    BY <1>22 DEF ReadTier, Goto
  <1>23. ASSUME NEW a \in Actors, WriteLevel(a) PROVE AloneInv'
    BY <1>23 DEF WriteLevel, Goto
  <1>24. ASSUME NEW a \in Actors, ReadTeam(a) PROVE AloneInv'
    BY <1>24 DEF ReadTeam, Goto
  <1>25. ASSUME NEW a \in Actors, MovesOn(a) PROVE AloneInv'
    BY <1>25 DEF MovesOn, Moves, Goto
  <1>26. ASSUME NEW a \in Actors, Answers(a) PROVE AloneInv'
    BY <1>26 DEF Answers, Moves, Drop
  <1>27. CASE UNCHANGED vars
    BY <1>27 DEF vars
  <1> HIDE DEF AllButActors, stripeVars, rowVars, tierVars, actorVars, histVars, TypeInv, TypeOK,
     Live, Notices, AloneInv
  <1> QED
    BY NextDoes, <1>1, <1>2, <1>3, <1>4, <1>5, <1>6, <1>7, <1>8, <1>9, <1>10, <1>11, <1>12, <1>13,
       <1>14, <1>15, <1>16, <1>17, <1>18, <1>19, <1>20, <1>21, <1>22, <1>23, <1>24, <1>25, <1>26,
       <1>27 DEF Does

(* A step forgets nothing of what happened. *)
LEMMA HistoryGrows ==
  ASSUME TypeInv, PlaceInv, HeldInv, [Next]_vars
  PROVE  Grows
  <1> USE PlanAssumption DEF AllButActors, stripeVars, rowVars, tierVars, actorVars, histVars,
     Grows, Notices
  <1>1. ASSUME NEW s \in Subs, Pay(s), More(s, {"checkout"}) PROVE Grows
    BY <1>1 DEF Pay, More
  <1>2. ASSUME NEW s \in Subs, RenewalFails(s), More(s, {"change", "unpaid"}) PROVE Grows
    BY <1>2 DEF RenewalFails, Change, More
  <1>3. ASSUME NEW s \in Subs, RenewalPaid(s), More(s, {"change"}) PROVE Grows
    BY <1>3 DEF RenewalPaid, Change, More
  <1>4. ASSUME NEW s \in Subs, End(s), More(s, {"change"}) PROVE Grows
    BY <1>4 DEF End, Change, More
  <1>5. ASSUME NEW s \in Subs, Portal(s), More(s, {"change"}) PROVE Grows
    BY <1>5 DEF Portal, Change, More
  <1>6. ASSUME NEW a \in Actors, NEW s \in Subs, NEW l \in PCs,
              NEW what \in Notices \union {"buy", "cancel", "resume"}, Begins(a, what, s, l)
        PROVE  Grows
    BY <1>6 DEF Begins
  <1>7. ASSUME NEW a \in Actors, NEW s \in Subs, Ends(a, s), More(s, {"change"}) PROVE Grows
    BY <1>7 DEF Ends, More
  <1>8. ASSUME NEW a \in Actors, NEW s \in Subs, Skips(a, s) PROVE Grows
    BY <1>8 DEF Skips
  <1>9. ASSUME NEW a \in Actors, OpenSession(a) PROVE Grows
    BY <1>9 DEF OpenSession, Drop
  <1>10. ASSUME NEW a \in Actors, Accepts(a), More(on[a], {"change"}) PROVE Grows
    BY <1>10 DEF Accepts, More
  <1>11. ASSUME NEW a \in Actors, Accepts(a), More(on[a], {}), atEnd' = atEnd PROVE Grows
    BY <1>11 DEF Accepts, More
  <1>12. ASSUME NEW a \in Actors, Declines(a) PROVE Grows
    BY <1>12 DEF Declines
  <1>13. ASSUME NEW a \in Actors, Marks(a) PROVE Grows
    BY <1>13 DEF Marks, Drop
  <1>14. ASSUME NEW a \in Actors, GivesUp(a) PROVE Grows
    BY <1>14 DEF GivesUp, Drop
  <1>15. ASSUME NEW a \in Actors, Finish(a), Fewer(on[a], op[a]) PROVE Grows
    BY <1>15 DEF Finish, Drop, Fewer
  <1>16. ASSUME NEW a \in Actors, ReadSub(a) PROVE Grows
    BY <1>16 DEF ReadSub, Goto
  <1>17. ASSUME NEW a \in Actors, FindOthers(a) PROVE Grows
    BY <1>17 DEF FindOthers, Goto, Active
  <1>18. ASSUME NEW a \in Actors, Closes(a) PROVE Grows
    BY <1>18 DEF Closes, Goto
  <1>19. ASSUME NEW a \in Actors, Records(a) PROVE Grows
    BY <1>19 DEF Records, Goto, MapStripeStatus
  <1>20. ASSUME NEW a \in Actors, FindsNoRow(a) PROVE Grows
    BY <1>20 DEF FindsNoRow, Goto
  <1>21. ASSUME NEW a \in Actors, Unpaid(a) PROVE Grows
    BY <1>21 DEF Unpaid, Goto
  <1>22. ASSUME NEW a \in Actors, ReadTier(a) PROVE Grows
    BY <1>22 DEF ReadTier, Goto
  <1>23. ASSUME NEW a \in Actors, WriteLevel(a) PROVE Grows
    BY <1>23 DEF WriteLevel, Goto
  <1>24. ASSUME NEW a \in Actors, ReadTeam(a) PROVE Grows
    BY <1>24 DEF ReadTeam, Goto
  <1>25. ASSUME NEW a \in Actors, MovesOn(a) PROVE Grows
    BY <1>25 DEF MovesOn, Moves, Goto
  <1>26. ASSUME NEW a \in Actors, Answers(a) PROVE Grows
    BY <1>26 DEF Answers, Moves, Drop
  <1>27. CASE UNCHANGED vars
    BY <1>27 DEF vars
  <1> HIDE DEF AllButActors, stripeVars, rowVars, tierVars, actorVars, histVars, Grows, Notices
  <1> QED
    BY NextDoes, <1>1, <1>2, <1>3, <1>4, <1>5, <1>6, <1>7, <1>8, <1>9, <1>10, <1>11, <1>12, <1>13,
       <1>14, <1>15, <1>16, <1>17, <1>18, <1>19, <1>20, <1>21, <1>22, <1>23, <1>24, <1>25, <1>26,
       <1>27 DEF Does

(* Without overlap, a notice due from before L stays so, but for the handler that enters L. *)
LEMMA DueKept ==
  ASSUME TypeInv, PlaceInv, HeldInv, AloneInv, ~overlapped, [Next]_vars, NEW q \in Subs,
         NEW m \in Notices, NEW L \in SUBSET Written, "finish" \in L, Due(q, m, L),
         \A b \in Actors : op[b] = m /\ on[b] = q /\ pc'[b] \in L => pc[b] \in L
  PROVE  Due(q, m, L)'
  <1> USE PlanAssumption DEF AllButActors, stripeVars, rowVars, tierVars, actorVars, histVars,
     TypeInv, TypeOK, Live, Notices, NothingSeen, PlaceInv, HeldInv, AloneInv, Written, Due
  <1>1. ASSUME NEW s \in Subs, Pay(s), More(s, {"checkout"}) PROVE Due(q, m, L)'
    <2>1. mail'[q][m] >= mail[q][m] /\ mail'[q][m] \in Nat
      BY <1>1, MoreMail
    <2>2. UNCHANGED <<pc, op, on>>
      BY <1>1 DEF Pay
    <2> QED
      BY <2>1, <2>2
  <1>2. ASSUME NEW s \in Subs, RenewalFails(s), More(s, {"change", "unpaid"})
        PROVE  Due(q, m, L)'
    <2>1. mail'[q][m] >= mail[q][m] /\ mail'[q][m] \in Nat
      BY <1>2, MoreMail
    <2>2. UNCHANGED <<pc, op, on>>
      BY <1>2 DEF RenewalFails, Change
    <2> QED
      BY <2>1, <2>2
  <1>3. ASSUME NEW s \in Subs, RenewalPaid(s), More(s, {"change"}) PROVE Due(q, m, L)'
    <2>1. mail'[q][m] >= mail[q][m] /\ mail'[q][m] \in Nat
      BY <1>3, MoreMail
    <2>2. UNCHANGED <<pc, op, on>>
      BY <1>3 DEF RenewalPaid, Change
    <2> QED
      BY <2>1, <2>2
  <1>4. ASSUME NEW s \in Subs, End(s), More(s, {"change"}) PROVE Due(q, m, L)'
    <2>1. mail'[q][m] >= mail[q][m] /\ mail'[q][m] \in Nat
      BY <1>4, MoreMail
    <2>2. UNCHANGED <<pc, op, on>>
      BY <1>4 DEF End, Change
    <2> QED
      BY <2>1, <2>2
  <1>5. ASSUME NEW s \in Subs, Portal(s), More(s, {"change"}) PROVE Due(q, m, L)'
    <2>1. mail'[q][m] >= mail[q][m] /\ mail'[q][m] \in Nat
      BY <1>5, MoreMail
    <2>2. UNCHANGED <<pc, op, on>>
      BY <1>5 DEF Portal, Change
    <2> QED
      BY <2>1, <2>2
  <1>6. ASSUME NEW a \in Actors, NEW s \in Subs, NEW l \in PCs,
              NEW what \in Notices \union {"buy", "cancel", "resume"}, Begins(a, what, s, l)
        PROVE  Due(q, m, L)'
    <2>1. UNCHANGED mail /\ l \notin Written /\ pc' = [pc EXCEPT ![a] = l]
      BY <1>6 DEF Begins
    <2>2. \A b \in Actors \ {a} : op'[b] = op[b] /\ on'[b] = on[b]
      BY <1>6 DEF Begins
    <2>3. pc'[a] = l
      BY <2>1
    <2>4. l \notin L
      BY <2>1, Zenon
    <2> QED
      BY <2>1, <2>2, <2>3, <2>4
  <1>7. ASSUME NEW a \in Actors, NEW s \in Subs, Ends(a, s), More(s, {"change"})
        PROVE  Due(q, m, L)'
    <2>1. mail'[q][m] >= mail[q][m] /\ mail'[q][m] \in Nat
      BY <1>7, MoreMail
    <2>2. UNCHANGED <<op, on>> /\ pc' = [pc EXCEPT ![a] = "rowOther"]
      BY <1>7 DEF Ends
    <2> QED
      BY <2>1, <2>2
  <1>8. ASSUME NEW a \in Actors, NEW s \in Subs, Skips(a, s) PROVE Due(q, m, L)'
    BY <1>8 DEF Skips
  <1>9. ASSUME NEW a \in Actors, OpenSession(a) PROVE Due(q, m, L)'
    BY <1>9 DEF OpenSession, Drop
  <1>10. ASSUME NEW a \in Actors, Accepts(a), More(on[a], {"change"}) PROVE Due(q, m, L)'
    <2>1. mail'[q][m] >= mail[q][m] /\ mail'[q][m] \in Nat
      BY <1>10, MoreMail DEF Accepts
    <2>2. UNCHANGED <<op, on>> /\ \E l \in PCs \ Written : pc' = [pc EXCEPT ![a] = l]
      BY <1>10 DEF Accepts, PCs
    <2> QED
      BY <2>1, <2>2
  <1>11. ASSUME NEW a \in Actors, Accepts(a), More(on[a], {}), atEnd' = atEnd
        PROVE  Due(q, m, L)'
    BY <1>11 DEF Accepts, More
  <1>12. ASSUME NEW a \in Actors, Declines(a) PROVE Due(q, m, L)'
    BY <1>12 DEF Declines
  <1>13. ASSUME NEW a \in Actors, Marks(a) PROVE Due(q, m, L)'
    BY <1>13 DEF Marks, Drop
  <1>14. ASSUME NEW a \in Actors, GivesUp(a) PROVE Due(q, m, L)'
    BY <1>14 DEF GivesUp, Drop
  <1>15. ASSUME NEW a \in Actors, Finish(a), Fewer(on[a], op[a]) PROVE Due(q, m, L)'
    BY <1>15 DEF Finish, Drop, Fewer
  <1>16. ASSUME NEW a \in Actors, ReadSub(a) PROVE Due(q, m, L)'
    BY <1>16 DEF ReadSub, Goto
  <1>17. ASSUME NEW a \in Actors, FindOthers(a) PROVE Due(q, m, L)'
    BY <1>17 DEF FindOthers, Goto, Active
  <1>18. ASSUME NEW a \in Actors, Closes(a) PROVE Due(q, m, L)'
    BY <1>18 DEF Closes, Goto
  <1>19. ASSUME NEW a \in Actors, Records(a) PROVE Due(q, m, L)'
    BY <1>19 DEF Records, Goto, MapStripeStatus
  <1>20. ASSUME NEW a \in Actors, FindsNoRow(a) PROVE Due(q, m, L)'
    BY <1>20 DEF FindsNoRow, Goto
  <1>21. ASSUME NEW a \in Actors, Unpaid(a) PROVE Due(q, m, L)'
    BY <1>21 DEF Unpaid, Goto
  <1>22. ASSUME NEW a \in Actors, ReadTier(a) PROVE Due(q, m, L)'
    BY <1>22 DEF ReadTier, Goto
  <1>23. ASSUME NEW a \in Actors, WriteLevel(a) PROVE Due(q, m, L)'
    BY <1>23 DEF WriteLevel, Goto
  <1>24. ASSUME NEW a \in Actors, ReadTeam(a) PROVE Due(q, m, L)'
    BY <1>24 DEF ReadTeam, Goto
  <1>25. ASSUME NEW a \in Actors, MovesOn(a) PROVE Due(q, m, L)'
    BY <1>25 DEF MovesOn, Moves, Goto
  <1>26. ASSUME NEW a \in Actors, Answers(a) PROVE Due(q, m, L)'
    BY <1>26 DEF Answers, Moves, Drop
  <1>27. CASE UNCHANGED vars
    BY <1>27 DEF vars
  <1> HIDE DEF AllButActors, stripeVars, rowVars, tierVars, actorVars, histVars, TypeInv, TypeOK,
     Live, Notices, NothingSeen, PlaceInv, HeldInv, AloneInv, Written, Due
  <1> QED
    BY NextDoes, <1>1, <1>2, <1>3, <1>4, <1>5, <1>6, <1>7, <1>8, <1>9, <1>10, <1>11, <1>12, <1>13,
       <1>14, <1>15, <1>16, <1>17, <1>18, <1>19, <1>20, <1>21, <1>22, <1>23, <1>24, <1>25, <1>26,
       <1>27 DEF Does

(* What was read and is outdated keeps its notice. *)
LEMMA SeenStep ==
  ASSUME TypeInv, PlaceInv, HeldInv, EndedInv, AloneInv, AloneInv', ~overlapped, ~overlapped',
         [Next]_vars, NEW b \in Actors, SeenOf(b)
  PROVE  SeenOf(b)'
  <1> USE PlanAssumption DEF AllButActors, stripeVars, rowVars, tierVars, actorVars, histVars,
     TypeInv, TypeOK, Live, Notices, NothingSeen, PlaceInv, HeldInv, EndedInv, AloneInv, SeenOf,
     Reading, Outdated
  <1>1. ASSUME NEW s \in Subs, Pay(s), More(s, {"checkout"}) PROVE SeenOf(b)'
    BY <1>1 DEF Pay, More
  <1>2. ASSUME NEW s \in Subs, RenewalFails(s), More(s, {"change", "unpaid"}) PROVE SeenOf(b)'
    BY <1>2 DEF RenewalFails, Change, More
  <1>3. ASSUME NEW s \in Subs, RenewalPaid(s), More(s, {"change"}) PROVE SeenOf(b)'
    BY <1>3 DEF RenewalPaid, Change, More
  <1>4. ASSUME NEW s \in Subs, End(s), More(s, {"change"}) PROVE SeenOf(b)'
    BY <1>4 DEF End, Change, More
  <1>5. ASSUME NEW s \in Subs, Portal(s), More(s, {"change"}) PROVE SeenOf(b)'
    BY <1>5 DEF Portal, Change, More
  <1>6. ASSUME NEW a \in Actors, NEW s \in Subs, NEW l \in PCs,
              NEW what \in Notices \union {"buy", "cancel", "resume"}, Begins(a, what, s, l)
        PROVE  SeenOf(b)'
    BY <1>6 DEF Begins
  <1>7. ASSUME NEW a \in Actors, NEW s \in Subs, Ends(a, s), More(s, {"change"})
        PROVE  SeenOf(b)'
    BY <1>7 DEF Ends, More
  <1>8. ASSUME NEW a \in Actors, NEW s \in Subs, Skips(a, s) PROVE SeenOf(b)'
    BY <1>8 DEF Skips
  <1>9. ASSUME NEW a \in Actors, OpenSession(a) PROVE SeenOf(b)'
    BY <1>9 DEF OpenSession, Drop
  <1>10. ASSUME NEW a \in Actors, Accepts(a), More(on[a], {"change"}) PROVE SeenOf(b)'
    BY <1>10 DEF Accepts, More
  <1>11. ASSUME NEW a \in Actors, Accepts(a), More(on[a], {}), atEnd' = atEnd PROVE SeenOf(b)'
    BY <1>11 DEF Accepts, More
  <1>12. ASSUME NEW a \in Actors, Declines(a) PROVE SeenOf(b)'
    BY <1>12 DEF Declines
  <1>13. ASSUME NEW a \in Actors, Marks(a) PROVE SeenOf(b)'
    BY <1>13 DEF Marks, Drop
  <1>14. ASSUME NEW a \in Actors, GivesUp(a) PROVE SeenOf(b)'
    BY <1>14 DEF GivesUp, Drop
  <1>15. ASSUME NEW a \in Actors, Finish(a), Fewer(on[a], op[a]) PROVE SeenOf(b)'
    BY <1>15 DEF Finish, Drop, Fewer
  <1>16. ASSUME NEW a \in Actors, ReadSub(a) PROVE SeenOf(b)'
    <2>1. /\ UNCHANGED <<stripeVars, on, op>>
          /\ \A c \in Actors \ {a} : pc'[c] = pc[c] /\ seen'[c] = seen[c]
      BY <1>16 DEF ReadSub, Goto
    <2>2. CASE b = a
      <3> DEFINE ends == on[a] \in atEnd
      <3>1. seen'[a] = [state |-> state[on[a]], atEnd |-> ends]
        BY <1>16 DEF ReadSub
      <3> HIDE DEF ends
      <3>2. seen'[a].state = state[on[a]] /\ seen'[a].atEnd = ends
        BY <3>1
      <3>3. seen'[a].atEnd <=> on[a] \in atEnd
        BY <3>2, Zenon DEF ends
      <3> QED
        BY <2>1, <2>2, <3>2, <3>3
    <2>3. CASE b # a
      BY <2>1, <2>3
    <2> QED
      BY <2>2, <2>3
  <1>17. ASSUME NEW a \in Actors, FindOthers(a) PROVE SeenOf(b)'
    BY <1>17 DEF FindOthers, Goto, Active
  <1>18. ASSUME NEW a \in Actors, Closes(a) PROVE SeenOf(b)'
    BY <1>18 DEF Closes, Goto
  <1>19. ASSUME NEW a \in Actors, Records(a) PROVE SeenOf(b)'
    BY <1>19 DEF Records, Goto, MapStripeStatus
  <1>20. ASSUME NEW a \in Actors, FindsNoRow(a) PROVE SeenOf(b)'
    BY <1>20 DEF FindsNoRow, Goto
  <1>21. ASSUME NEW a \in Actors, Unpaid(a) PROVE SeenOf(b)'
    BY <1>21 DEF Unpaid, Goto
  <1>22. ASSUME NEW a \in Actors, ReadTier(a) PROVE SeenOf(b)'
    BY <1>22 DEF ReadTier, Goto
  <1>23. ASSUME NEW a \in Actors, WriteLevel(a) PROVE SeenOf(b)'
    BY <1>23 DEF WriteLevel, Goto
  <1>24. ASSUME NEW a \in Actors, ReadTeam(a) PROVE SeenOf(b)'
    BY <1>24 DEF ReadTeam, Goto
  <1>25. ASSUME NEW a \in Actors, MovesOn(a) PROVE SeenOf(b)'
    BY <1>25 DEF MovesOn, Moves, Goto
  <1>26. ASSUME NEW a \in Actors, Answers(a) PROVE SeenOf(b)'
    BY <1>26 DEF Answers, Moves, Drop
  <1>27. CASE UNCHANGED vars
    BY <1>27 DEF vars
  <1> HIDE DEF AllButActors, stripeVars, rowVars, tierVars, actorVars, histVars, TypeInv, TypeOK,
     Live, Notices, NothingSeen, PlaceInv, HeldInv, EndedInv, AloneInv, SeenOf, Reading, Outdated
  <1> QED
    BY NextDoes, <1>1, <1>2, <1>3, <1>4, <1>5, <1>6, <1>7, <1>8, <1>9, <1>10, <1>11, <1>12, <1>13,
       <1>14, <1>15, <1>16, <1>17, <1>18, <1>19, <1>20, <1>21, <1>22, <1>23, <1>24, <1>25, <1>26,
       <1>27 DEF Does

(* A stale active row keeps a notice, or gets one as it becomes stale. *)
LEMMA StaleStep ==
  ASSUME TypeInv, PlaceInv, HeldInv, EndedInv, AloneInv, AloneInv', ~overlapped, ~overlapped',
         [Next]_vars, SeenInv, NEW q \in Subs, StaleOf(q)
  PROVE  StaleOf(q)'
  <1> USE PlanAssumption DEF AllButActors, stripeVars, rowVars, tierVars, actorVars, histVars,
     TypeInv, TypeOK, Live, Notices, NothingSeen, PlaceInv, HeldInv, EndedInv, AloneInv, SeenOf,
     SeenInv, Reading, Written, Outdated, Due, StaleOf, Active
  <1>1. ASSUME NEW s \in Subs, Pay(s), More(s, {"checkout"}) PROVE StaleOf(q)'
    BY <1>1 DEF Pay, More
  <1>2. ASSUME NEW s \in Subs, RenewalFails(s), More(s, {"change", "unpaid"}) PROVE StaleOf(q)'
    BY <1>2 DEF RenewalFails, Change, More
  <1>3. ASSUME NEW s \in Subs, RenewalPaid(s), More(s, {"change"}) PROVE StaleOf(q)'
    BY <1>3 DEF RenewalPaid, Change, More
  <1>4. ASSUME NEW s \in Subs, End(s), More(s, {"change"}) PROVE StaleOf(q)'
    BY <1>4 DEF End, Change, More
  <1>5. ASSUME NEW s \in Subs, Portal(s), More(s, {"change"}) PROVE StaleOf(q)'
    BY <1>5 DEF Portal, Change, More
  <1>6. ASSUME NEW a \in Actors, NEW s \in Subs, NEW l \in PCs,
              NEW what \in Notices \union {"buy", "cancel", "resume"}, Begins(a, what, s, l)
        PROVE  StaleOf(q)'
    BY <1>6 DEF Begins
  <1>7. ASSUME NEW a \in Actors, NEW s \in Subs, Ends(a, s), More(s, {"change"})
        PROVE  StaleOf(q)'
    BY <1>7 DEF Ends, More
  <1>8. ASSUME NEW a \in Actors, NEW s \in Subs, Skips(a, s) PROVE StaleOf(q)'
    BY <1>8 DEF Skips
  <1>9. ASSUME NEW a \in Actors, OpenSession(a) PROVE StaleOf(q)'
    BY <1>9 DEF OpenSession, Drop
  <1>10. ASSUME NEW a \in Actors, Accepts(a), More(on[a], {"change"}) PROVE StaleOf(q)'
    <2>1. /\ UNCHANGED <<state, status, op, on>>
          /\ \E l \in PCs \ Written : pc' = [pc EXCEPT ![a] = l]
      BY <1>10 DEF Accepts, PCs
    <2>2. mail'[q]["change"] \in Nat /\ mail'[q]["change"] >= mail[q]["change"]
      BY <1>10, MoreMail DEF Accepts
    <2> QED
      BY <2>1, <2>2
  <1>11. ASSUME NEW a \in Actors, Accepts(a), More(on[a], {}), atEnd' = atEnd PROVE StaleOf(q)'
    BY <1>11 DEF Accepts, More
  <1>12. ASSUME NEW a \in Actors, Declines(a) PROVE StaleOf(q)'
    BY <1>12 DEF Declines
  <1>13. ASSUME NEW a \in Actors, Marks(a) PROVE StaleOf(q)'
    BY <1>13 DEF Marks, Drop
  <1>14. ASSUME NEW a \in Actors, GivesUp(a) PROVE StaleOf(q)'
    BY <1>14 DEF GivesUp, Drop
  <1>15. ASSUME NEW a \in Actors, Finish(a), Fewer(on[a], op[a]) PROVE StaleOf(q)'
    BY <1>15 DEF Finish, Drop, Fewer
  <1>16. ASSUME NEW a \in Actors, ReadSub(a) PROVE StaleOf(q)'
    BY <1>16 DEF ReadSub, Goto
  <1>17. ASSUME NEW a \in Actors, FindOthers(a) PROVE StaleOf(q)'
    BY <1>17 DEF FindOthers, Goto, Active
  <1>18. ASSUME NEW a \in Actors, Closes(a) PROVE StaleOf(q)'
    BY <1>18 DEF Closes, Goto
  <1>19. ASSUME NEW a \in Actors, Records(a) PROVE StaleOf(q)'
    BY <1>19 DEF Records, Goto, MapStripeStatus
  <1>20. ASSUME NEW a \in Actors, FindsNoRow(a) PROVE StaleOf(q)'
    BY <1>20 DEF FindsNoRow, Goto
  <1>21. ASSUME NEW a \in Actors, Unpaid(a) PROVE StaleOf(q)'
    BY <1>21 DEF Unpaid, Goto
  <1>22. ASSUME NEW a \in Actors, ReadTier(a) PROVE StaleOf(q)'
    BY <1>22 DEF ReadTier, Goto
  <1>23. ASSUME NEW a \in Actors, WriteLevel(a) PROVE StaleOf(q)'
    BY <1>23 DEF WriteLevel, Goto
  <1>24. ASSUME NEW a \in Actors, ReadTeam(a) PROVE StaleOf(q)'
    BY <1>24 DEF ReadTeam, Goto
  <1>25. ASSUME NEW a \in Actors, MovesOn(a) PROVE StaleOf(q)'
    BY <1>25 DEF MovesOn, Moves, Goto
  <1>26. ASSUME NEW a \in Actors, Answers(a) PROVE StaleOf(q)'
    BY <1>26 DEF Answers, Moves, Drop
  <1>27. CASE UNCHANGED vars
    BY <1>27 DEF vars
  <1> HIDE DEF AllButActors, stripeVars, rowVars, tierVars, actorVars, histVars, TypeInv, TypeOK,
     Live, Notices, NothingSeen, PlaceInv, HeldInv, EndedInv, AloneInv, SeenOf, SeenInv, Reading,
     Written, Outdated, Due, StaleOf, Active
  <1> QED
    BY NextDoes, <1>1, <1>2, <1>3, <1>4, <1>5, <1>6, <1>7, <1>8, <1>9, <1>10, <1>11, <1>12, <1>13,
       <1>14, <1>15, <1>16, <1>17, <1>18, <1>19, <1>20, <1>21, <1>22, <1>23, <1>24, <1>25, <1>26,
       <1>27 DEF Does

(* What a request is about to write on the row is so at Stripe, or a notice says otherwise. *)
LEMMA MarkStep ==
  ASSUME TypeInv, PlaceInv, HeldInv, EndedInv, AloneInv, AloneInv', ~overlapped, ~overlapped',
         [Next]_vars, NEW b \in Actors, MarkOf(b)
  PROVE  MarkOf(b)'
  <1> USE PlanAssumption DEF AllButActors, stripeVars, rowVars, tierVars, actorVars, histVars,
     TypeInv, TypeOK, Live, Notices, NothingSeen, PlaceInv, HeldInv, AloneInv, MarkOf
  <1>1. ASSUME NEW s \in Subs, Pay(s), More(s, {"checkout"}) PROVE MarkOf(b)'
    BY <1>1 DEF Pay, More
  <1>2. ASSUME NEW s \in Subs, RenewalFails(s), More(s, {"change", "unpaid"}) PROVE MarkOf(b)'
    BY <1>2 DEF RenewalFails, Change, More
  <1>3. ASSUME NEW s \in Subs, RenewalPaid(s), More(s, {"change"}) PROVE MarkOf(b)'
    BY <1>3 DEF RenewalPaid, Change, More
  <1>4. ASSUME NEW s \in Subs, End(s), More(s, {"change"}) PROVE MarkOf(b)'
    BY <1>4 DEF End, Change, More
  <1>5. ASSUME NEW s \in Subs, Portal(s), More(s, {"change"}) PROVE MarkOf(b)'
    BY <1>5 DEF Portal, Change, More
  <1>6. ASSUME NEW a \in Actors, NEW s \in Subs, NEW l \in PCs,
              NEW what \in Notices \union {"buy", "cancel", "resume"}, Begins(a, what, s, l)
        PROVE  MarkOf(b)'
    BY <1>6 DEF Begins
  <1>7. ASSUME NEW a \in Actors, NEW s \in Subs, Ends(a, s), More(s, {"change"})
        PROVE  MarkOf(b)'
    BY <1>7 DEF Ends, More
  <1>8. ASSUME NEW a \in Actors, NEW s \in Subs, Skips(a, s) PROVE MarkOf(b)'
    BY <1>8 DEF Skips
  <1>9. ASSUME NEW a \in Actors, OpenSession(a) PROVE MarkOf(b)'
    BY <1>9 DEF OpenSession, Drop
  <1>10. ASSUME NEW a \in Actors, Accepts(a), More(on[a], {"change"}) PROVE MarkOf(b)'
    BY <1>10 DEF Accepts, More
  <1>11. ASSUME NEW a \in Actors, Accepts(a), More(on[a], {}), atEnd' = atEnd PROVE MarkOf(b)'
    BY <1>11 DEF Accepts, More
  <1>12. ASSUME NEW a \in Actors, Declines(a) PROVE MarkOf(b)'
    BY <1>12 DEF Declines
  <1>13. ASSUME NEW a \in Actors, Marks(a) PROVE MarkOf(b)'
    BY <1>13 DEF Marks, Drop
  <1>14. ASSUME NEW a \in Actors, GivesUp(a) PROVE MarkOf(b)'
    BY <1>14 DEF GivesUp, Drop
  <1>15. ASSUME NEW a \in Actors, Finish(a), Fewer(on[a], op[a]) PROVE MarkOf(b)'
    BY <1>15 DEF Finish, Drop, Fewer
  <1>16. ASSUME NEW a \in Actors, ReadSub(a) PROVE MarkOf(b)'
    BY <1>16 DEF ReadSub, Goto
  <1>17. ASSUME NEW a \in Actors, FindOthers(a) PROVE MarkOf(b)'
    BY <1>17 DEF FindOthers, Goto, Active
  <1>18. ASSUME NEW a \in Actors, Closes(a) PROVE MarkOf(b)'
    BY <1>18 DEF Closes, Goto
  <1>19. ASSUME NEW a \in Actors, Records(a) PROVE MarkOf(b)'
    BY <1>19 DEF Records, Goto, MapStripeStatus
  <1>20. ASSUME NEW a \in Actors, FindsNoRow(a) PROVE MarkOf(b)'
    BY <1>20 DEF FindsNoRow, Goto
  <1>21. ASSUME NEW a \in Actors, Unpaid(a) PROVE MarkOf(b)'
    BY <1>21 DEF Unpaid, Goto
  <1>22. ASSUME NEW a \in Actors, ReadTier(a) PROVE MarkOf(b)'
    BY <1>22 DEF ReadTier, Goto
  <1>23. ASSUME NEW a \in Actors, WriteLevel(a) PROVE MarkOf(b)'
    BY <1>23 DEF WriteLevel, Goto
  <1>24. ASSUME NEW a \in Actors, ReadTeam(a) PROVE MarkOf(b)'
    BY <1>24 DEF ReadTeam, Goto
  <1>25. ASSUME NEW a \in Actors, MovesOn(a) PROVE MarkOf(b)'
    BY <1>25 DEF MovesOn, Moves, Goto
  <1>26. ASSUME NEW a \in Actors, Answers(a) PROVE MarkOf(b)'
    BY <1>26 DEF Answers, Moves, Drop
  <1>27. CASE UNCHANGED vars
    BY <1>27 DEF vars
  <1> HIDE DEF AllButActors, stripeVars, rowVars, tierVars, actorVars, histVars, TypeInv, TypeOK,
     Live, Notices, NothingSeen, PlaceInv, HeldInv, AloneInv, MarkOf
  <1> QED
    BY NextDoes, <1>1, <1>2, <1>3, <1>4, <1>5, <1>6, <1>7, <1>8, <1>9, <1>10, <1>11, <1>12, <1>13,
       <1>14, <1>15, <1>16, <1>17, <1>18, <1>19, <1>20, <1>21, <1>22, <1>23, <1>24, <1>25, <1>26,
       <1>27 DEF Does

(* A row that differs keeps a notice, or gets one as it begins to differ. *)
LEMMA RowStep ==
  ASSUME TypeInv, PlaceInv, HeldInv, EndedInv, AloneInv, AloneInv', ~overlapped, ~overlapped',
         [Next]_vars, SeenInv, ~misled', \A b \in Actors : MarkOf(b),
         NEW q \in Subs, RowOf(q)
  PROVE  RowOf(q)'
  <1> USE PlanAssumption DEF AllButActors, stripeVars, rowVars, tierVars, actorVars, histVars,
     TypeInv, TypeOK, Live, Notices, NothingSeen, PlaceInv, HeldInv, EndedInv, AloneInv, SeenOf,
     SeenInv, MarkOf, Reading, Written, Outdated, Due, RowOf, Differs, MapStripeStatus
  <1>1. ASSUME NEW s \in Subs, Pay(s), More(s, {"checkout"}) PROVE RowOf(q)'
    BY <1>1 DEF Pay, More
  <1>2. ASSUME NEW s \in Subs, RenewalFails(s), More(s, {"change", "unpaid"}) PROVE RowOf(q)'
    BY <1>2 DEF RenewalFails, Change, More
  <1>3. ASSUME NEW s \in Subs, RenewalPaid(s), More(s, {"change"}) PROVE RowOf(q)'
    BY <1>3 DEF RenewalPaid, Change, More
  <1>4. ASSUME NEW s \in Subs, End(s), More(s, {"change"}) PROVE RowOf(q)'
    BY <1>4 DEF End, Change, More
  <1>5. ASSUME NEW s \in Subs, Portal(s), More(s, {"change"}) PROVE RowOf(q)'
    BY <1>5 DEF Portal, Change, More
  <1>6. ASSUME NEW a \in Actors, NEW s \in Subs, NEW l \in PCs,
              NEW what \in Notices \union {"buy", "cancel", "resume"}, Begins(a, what, s, l)
        PROVE  RowOf(q)'
    BY <1>6 DEF Begins
  <1>7. ASSUME NEW a \in Actors, NEW s \in Subs, Ends(a, s), More(s, {"change"})
        PROVE  RowOf(q)'
    BY <1>7 DEF Ends, More
  <1>8. ASSUME NEW a \in Actors, NEW s \in Subs, Skips(a, s) PROVE RowOf(q)'
    BY <1>8 DEF Skips
  <1>9. ASSUME NEW a \in Actors, OpenSession(a) PROVE RowOf(q)'
    BY <1>9 DEF OpenSession, Drop
  <1>10. ASSUME NEW a \in Actors, Accepts(a), More(on[a], {"change"}) PROVE RowOf(q)'
    BY <1>10 DEF Accepts, More
  <1>11. ASSUME NEW a \in Actors, Accepts(a), More(on[a], {}), atEnd' = atEnd PROVE RowOf(q)'
    BY <1>11 DEF Accepts, More
  <1>12. ASSUME NEW a \in Actors, Declines(a) PROVE RowOf(q)'
    BY <1>12 DEF Declines
  <1>13. ASSUME NEW a \in Actors, Marks(a) PROVE RowOf(q)'
    BY <1>13 DEF Marks, Drop
  <1>14. ASSUME NEW a \in Actors, GivesUp(a) PROVE RowOf(q)'
    BY <1>14 DEF GivesUp, Drop
  <1>15. ASSUME NEW a \in Actors, Finish(a), Fewer(on[a], op[a]) PROVE RowOf(q)'
    BY <1>15 DEF Finish, Drop, Fewer
  <1>16. ASSUME NEW a \in Actors, ReadSub(a) PROVE RowOf(q)'
    BY <1>16 DEF ReadSub, Goto
  <1>17. ASSUME NEW a \in Actors, FindOthers(a) PROVE RowOf(q)'
    BY <1>17 DEF FindOthers, Goto, Active
  <1>18. ASSUME NEW a \in Actors, Closes(a) PROVE RowOf(q)'
    BY <1>18 DEF Closes, Goto
  <1>19. ASSUME NEW a \in Actors, Records(a) PROVE RowOf(q)'
    BY <1>19 DEF Records, Goto, MapStripeStatus
  <1>20. ASSUME NEW a \in Actors, FindsNoRow(a) PROVE RowOf(q)'
    BY <1>20 DEF FindsNoRow, Goto
  <1>21. ASSUME NEW a \in Actors, Unpaid(a) PROVE RowOf(q)'
    BY <1>21 DEF Unpaid, Goto
  <1>22. ASSUME NEW a \in Actors, ReadTier(a) PROVE RowOf(q)'
    BY <1>22 DEF ReadTier, Goto
  <1>23. ASSUME NEW a \in Actors, WriteLevel(a) PROVE RowOf(q)'
    BY <1>23 DEF WriteLevel, Goto
  <1>24. ASSUME NEW a \in Actors, ReadTeam(a) PROVE RowOf(q)'
    BY <1>24 DEF ReadTeam, Goto
  <1>25. ASSUME NEW a \in Actors, MovesOn(a) PROVE RowOf(q)'
    BY <1>25 DEF MovesOn, Moves, Goto
  <1>26. ASSUME NEW a \in Actors, Answers(a) PROVE RowOf(q)'
    BY <1>26 DEF Answers, Moves, Drop
  <1>27. CASE UNCHANGED vars
    BY <1>27 DEF vars
  <1> HIDE DEF AllButActors, stripeVars, rowVars, tierVars, actorVars, histVars, TypeInv, TypeOK,
     Live, Notices, NothingSeen, PlaceInv, HeldInv, EndedInv, AloneInv, SeenOf, SeenInv, MarkOf,
     Reading, Written, Outdated, Due, RowOf, Differs, MapStripeStatus
  <1> QED
    BY NextDoes, <1>1, <1>2, <1>3, <1>4, <1>5, <1>6, <1>7, <1>8, <1>9, <1>10, <1>11, <1>12, <1>13,
       <1>14, <1>15, <1>16, <1>17, <1>18, <1>19, <1>20, <1>21, <1>22, <1>23, <1>24, <1>25, <1>26,
       <1>27 DEF Does

(* A step syncs nothing or is one of those that do. *)
LEMMA SyncSteps ==
  ASSUME TypeInv, PlaceInv, HeldInv, [Next]_vars
  PROVE  SyncsNothing \/ \E b \in Actors : SyncStep(b)
  <1> USE PlanAssumption DEF AllButActors, stripeVars, rowVars, tierVars, actorVars, histVars,
     TypeInv, TypeOK, NothingSeen, Levelled, SyncsNothing, Notices
  <1>1. ASSUME NEW s \in Subs, Pay(s), More(s, {"checkout"})
        PROVE  SyncsNothing \/ \E b \in Actors : SyncStep(b)
    BY <1>1 DEF Pay, More
  <1>2. ASSUME NEW s \in Subs, RenewalFails(s), More(s, {"change", "unpaid"})
        PROVE  SyncsNothing \/ \E b \in Actors : SyncStep(b)
    BY <1>2 DEF RenewalFails, Change, More
  <1>3. ASSUME NEW s \in Subs, RenewalPaid(s), More(s, {"change"})
        PROVE  SyncsNothing \/ \E b \in Actors : SyncStep(b)
    BY <1>3 DEF RenewalPaid, Change, More
  <1>4. ASSUME NEW s \in Subs, End(s), More(s, {"change"})
        PROVE  SyncsNothing \/ \E b \in Actors : SyncStep(b)
    BY <1>4 DEF End, Change, More
  <1>5. ASSUME NEW s \in Subs, Portal(s), More(s, {"change"})
        PROVE  SyncsNothing \/ \E b \in Actors : SyncStep(b)
    BY <1>5 DEF Portal, Change, More
  <1>6. ASSUME NEW a \in Actors, NEW s \in Subs, NEW l \in PCs,
              NEW what \in Notices \union {"buy", "cancel", "resume"}, Begins(a, what, s, l)
        PROVE  SyncsNothing \/ \E b \in Actors : SyncStep(b)
    BY <1>6 DEF Begins
  <1>7. ASSUME NEW a \in Actors, NEW s \in Subs, Ends(a, s), More(s, {"change"})
        PROVE  SyncsNothing \/ \E b \in Actors : SyncStep(b)
    BY <1>7 DEF Ends, More
  <1>8. ASSUME NEW a \in Actors, NEW s \in Subs, Skips(a, s)
        PROVE  SyncsNothing \/ \E b \in Actors : SyncStep(b)
    BY <1>8 DEF Skips
  <1>9. ASSUME NEW a \in Actors, OpenSession(a)
        PROVE  SyncsNothing \/ \E b \in Actors : SyncStep(b)
    BY <1>9 DEF OpenSession, Drop
  <1>10. ASSUME NEW a \in Actors, Accepts(a), More(on[a], {"change"})
        PROVE  SyncsNothing \/ \E b \in Actors : SyncStep(b)
    BY <1>10 DEF Accepts, More
  <1>11. ASSUME NEW a \in Actors, Accepts(a), More(on[a], {}), atEnd' = atEnd
        PROVE  SyncsNothing \/ \E b \in Actors : SyncStep(b)
    BY <1>11 DEF Accepts, More
  <1>12. ASSUME NEW a \in Actors, Declines(a)
        PROVE  SyncsNothing \/ \E b \in Actors : SyncStep(b)
    BY <1>12 DEF Declines
  <1>13. ASSUME NEW a \in Actors, Marks(a) PROVE SyncsNothing \/ \E b \in Actors : SyncStep(b)
    BY <1>13 DEF Marks, Drop
  <1>14. ASSUME NEW a \in Actors, GivesUp(a)
        PROVE  SyncsNothing \/ \E b \in Actors : SyncStep(b)
    BY <1>14 DEF GivesUp, Drop
  <1>15. ASSUME NEW a \in Actors, Finish(a), Fewer(on[a], op[a])
        PROVE  SyncsNothing \/ \E b \in Actors : SyncStep(b)
    BY <1>15 DEF Finish, Drop, Fewer
  <1>16. ASSUME NEW a \in Actors, ReadSub(a)
        PROVE  SyncsNothing \/ \E b \in Actors : SyncStep(b)
    BY <1>16 DEF ReadSub, Goto
  <1>17. ASSUME NEW a \in Actors, FindOthers(a)
        PROVE  SyncsNothing \/ \E b \in Actors : SyncStep(b)
    BY <1>17 DEF FindOthers, Goto, Active
  <1>18. ASSUME NEW a \in Actors, Closes(a) PROVE SyncsNothing \/ \E b \in Actors : SyncStep(b)
    BY <1>18 DEF SyncStep
  <1>19. ASSUME NEW a \in Actors, Records(a)
        PROVE  SyncsNothing \/ \E b \in Actors : SyncStep(b)
    BY <1>19 DEF SyncStep
  <1>20. ASSUME NEW a \in Actors, FindsNoRow(a)
        PROVE  SyncsNothing \/ \E b \in Actors : SyncStep(b)
    BY <1>20 DEF SyncStep
  <1>21. ASSUME NEW a \in Actors, Unpaid(a) PROVE SyncsNothing \/ \E b \in Actors : SyncStep(b)
    BY <1>21 DEF SyncStep
  <1>22. ASSUME NEW a \in Actors, ReadTier(a)
        PROVE  SyncsNothing \/ \E b \in Actors : SyncStep(b)
    BY <1>22 DEF SyncStep
  <1>23. ASSUME NEW a \in Actors, WriteLevel(a)
        PROVE  SyncsNothing \/ \E b \in Actors : SyncStep(b)
    BY <1>23 DEF SyncStep
  <1>24. ASSUME NEW a \in Actors, ReadTeam(a)
        PROVE  SyncsNothing \/ \E b \in Actors : SyncStep(b)
    BY <1>24 DEF SyncStep
  <1>25. ASSUME NEW a \in Actors, MovesOn(a)
        PROVE  SyncsNothing \/ \E b \in Actors : SyncStep(b)
    BY <1>25 DEF SyncStep
  <1>26. ASSUME NEW a \in Actors, Answers(a)
        PROVE  SyncsNothing \/ \E b \in Actors : SyncStep(b)
    BY <1>26 DEF SyncStep
  <1>27. CASE UNCHANGED vars
    BY <1>27 DEF vars
  <1> HIDE DEF AllButActors, stripeVars, rowVars, tierVars, actorVars, histVars, TypeInv, TypeOK,
     NothingSeen, Levelled, SyncsNothing, Notices
  <1> QED
    BY NextDoes, <1>1, <1>2, <1>3, <1>4, <1>5, <1>6, <1>7, <1>8, <1>9, <1>10, <1>11, <1>12, <1>13,
       <1>14, <1>15, <1>16, <1>17, <1>18, <1>19, <1>20, <1>21, <1>22, <1>23, <1>24, <1>25, <1>26,
       <1>27 DEF Does

(* A row is never taken away. *)
LEMMA StatusStays ==
  ASSUME TypeInv, PlaceInv, HeldInv, [Next]_vars, NEW q \in Subs, status[q] # "none"
  PROVE  status'[q] # "none"
  <1> USE PlanAssumption DEF AllButActors, stripeVars, rowVars, tierVars, actorVars, histVars,
     TypeInv, TypeOK, Live, Notices
  <1>1. ASSUME NEW s \in Subs, Pay(s), More(s, {"checkout"}) PROVE status'[q] # "none"
    BY <1>1 DEF Pay, More
  <1>2. ASSUME NEW s \in Subs, RenewalFails(s), More(s, {"change", "unpaid"})
        PROVE  status'[q] # "none"
    BY <1>2 DEF RenewalFails, Change, More
  <1>3. ASSUME NEW s \in Subs, RenewalPaid(s), More(s, {"change"}) PROVE status'[q] # "none"
    BY <1>3 DEF RenewalPaid, Change, More
  <1>4. ASSUME NEW s \in Subs, End(s), More(s, {"change"}) PROVE status'[q] # "none"
    BY <1>4 DEF End, Change, More
  <1>5. ASSUME NEW s \in Subs, Portal(s), More(s, {"change"}) PROVE status'[q] # "none"
    BY <1>5 DEF Portal, Change, More
  <1>6. ASSUME NEW a \in Actors, NEW s \in Subs, NEW l \in PCs,
              NEW what \in Notices \union {"buy", "cancel", "resume"}, Begins(a, what, s, l)
        PROVE  status'[q] # "none"
    BY <1>6 DEF Begins
  <1>7. ASSUME NEW a \in Actors, NEW s \in Subs, Ends(a, s), More(s, {"change"})
        PROVE  status'[q] # "none"
    BY <1>7 DEF Ends, More
  <1>8. ASSUME NEW a \in Actors, NEW s \in Subs, Skips(a, s) PROVE status'[q] # "none"
    BY <1>8 DEF Skips
  <1>9. ASSUME NEW a \in Actors, OpenSession(a) PROVE status'[q] # "none"
    BY <1>9 DEF OpenSession, Drop
  <1>10. ASSUME NEW a \in Actors, Accepts(a), More(on[a], {"change"}) PROVE status'[q] # "none"
    BY <1>10 DEF Accepts, More
  <1>11. ASSUME NEW a \in Actors, Accepts(a), More(on[a], {}), atEnd' = atEnd
        PROVE  status'[q] # "none"
    BY <1>11 DEF Accepts, More
  <1>12. ASSUME NEW a \in Actors, Declines(a) PROVE status'[q] # "none"
    BY <1>12 DEF Declines
  <1>13. ASSUME NEW a \in Actors, Marks(a) PROVE status'[q] # "none"
    BY <1>13 DEF Marks, Drop
  <1>14. ASSUME NEW a \in Actors, GivesUp(a) PROVE status'[q] # "none"
    BY <1>14 DEF GivesUp, Drop
  <1>15. ASSUME NEW a \in Actors, Finish(a), Fewer(on[a], op[a]) PROVE status'[q] # "none"
    BY <1>15 DEF Finish, Drop, Fewer
  <1>16. ASSUME NEW a \in Actors, ReadSub(a) PROVE status'[q] # "none"
    BY <1>16 DEF ReadSub, Goto
  <1>17. ASSUME NEW a \in Actors, FindOthers(a) PROVE status'[q] # "none"
    BY <1>17 DEF FindOthers, Goto, Active
  <1>18. ASSUME NEW a \in Actors, Closes(a) PROVE status'[q] # "none"
    BY <1>18 DEF Closes, Goto
  <1>19. ASSUME NEW a \in Actors, Records(a) PROVE status'[q] # "none"
    BY <1>19 DEF Records, Goto, MapStripeStatus
  <1>20. ASSUME NEW a \in Actors, FindsNoRow(a) PROVE status'[q] # "none"
    BY <1>20 DEF FindsNoRow, Goto
  <1>21. ASSUME NEW a \in Actors, Unpaid(a) PROVE status'[q] # "none"
    BY <1>21 DEF Unpaid, Goto
  <1>22. ASSUME NEW a \in Actors, ReadTier(a) PROVE status'[q] # "none"
    BY <1>22 DEF ReadTier, Goto
  <1>23. ASSUME NEW a \in Actors, WriteLevel(a) PROVE status'[q] # "none"
    BY <1>23 DEF WriteLevel, Goto
  <1>24. ASSUME NEW a \in Actors, ReadTeam(a) PROVE status'[q] # "none"
    BY <1>24 DEF ReadTeam, Goto
  <1>25. ASSUME NEW a \in Actors, MovesOn(a) PROVE status'[q] # "none"
    BY <1>25 DEF MovesOn, Moves, Goto
  <1>26. ASSUME NEW a \in Actors, Answers(a) PROVE status'[q] # "none"
    BY <1>26 DEF Answers, Moves, Drop
  <1>27. CASE UNCHANGED vars
    BY <1>27 DEF vars
  <1> HIDE DEF AllButActors, stripeVars, rowVars, tierVars, actorVars, histVars, TypeInv, TypeOK,
     Live, Notices
  <1> QED
    BY NextDoes, <1>1, <1>2, <1>3, <1>4, <1>5, <1>6, <1>7, <1>8, <1>9, <1>10, <1>11, <1>12, <1>13,
       <1>14, <1>15, <1>16, <1>17, <1>18, <1>19, <1>20, <1>21, <1>22, <1>23, <1>24, <1>25, <1>26,
       <1>27 DEF Does

(* A notice that is still to be handled will find its row, and is not left *)
(* by a step that begins none of the places L for it.                      *)
LEMMA SyncKept ==
  ASSUME TypeInv, PlaceInv, HeldInv, AloneInv, ~overlapped, [Next]_vars,
         NEW q \in Subs, NEW m \in Notices, NEW L \in SUBSET Written, "finish" \in L,
         WillSync(q, m, L),
         \A b \in Actors : op[b] = m /\ on[b] = q /\ pc'[b] \in L => pc[b] \in L
  PROVE  WillSync(q, m, L)'
  <1>1. Due(q, m, L)'
    BY DueKept DEF WillSync
  <1>2. m = "checkout" \/ status'[q] # "none"
    BY StatusStays DEF WillSync
  <1> QED
    BY <1>1, <1>2 DEF WillSync

(* Whoever has a notice will bring level and team up to date with it, from *)
(* the places before L.                                                    *)
LEMMA HandlerSyncs ==
  ASSUME TypeInv', PlaceInv', HeldInv', AloneInv', ~overlapped', NEW a \in Actors,
         op'[a] \in Notices, op'[a] = "checkout" \/ status'[on'[a]] # "none",
         NEW L \in SUBSET Written, pc'[a] \notin L
  PROVE  (\E s \in Subs, n \in Notices : WillSync(s, n, L))'
  <1>1. on'[a] \in Subs /\ mail'[on'[a]][op'[a]] > 0
    BY DEF PlaceInv, HeldInv, Notices
  <1>2. \A b \in Actors : pc'[b] \in L => b = a
    BY DEF AloneInv, PlaceInv, Notices, Written
  <1>3. WillSync(on[a], op[a], L)'
    BY <1>1, <1>2 DEF WillSync, Due
  <1> QED
    BY <1>1, <1>3

(* Who takes one of these steps is alone. *)
LEMMA SyncAlone ==
  ASSUME TypeInv, PlaceInv, AloneInv, ~overlapped, NEW a \in Actors, SyncStep(a)
  PROVE  /\ on[a] \in Subs /\ op[a] \in Asked
         /\ \A b \in Actors \ {a} : pc[b] = "idle" /\ op[b] = "none" /\ pc'[b] = "idle"
  <1>1. pc[a] # "idle" /\ pc[a] # "open"
    BY DEF SyncStep, Records, Closes, Unpaid, FindsNoRow, ReadTier, WriteLevel, ReadTeam, MovesOn,
           Answers, Moves
  <1>2. on[a] \in Subs /\ op[a] \in Asked
    BY <1>1 DEF PlaceInv, Asked, TypeInv, TypeOK, Notices
  <1>3. \A b \in Actors \ {a} : pc[b] = "idle" /\ op[b] = "none"
    BY <1>1 DEF AloneInv, PlaceInv
  <1>4. \E l \in PCs : pc' = [pc EXCEPT ![a] = l]
    BY DEF SyncStep, Records, Closes, Unpaid, FindsNoRow, ReadTier, WriteLevel, ReadTeam, MovesOn,
           Answers, Moves, Goto, Drop, PCs
  <1> QED
    BY <1>2, <1>3, <1>4 DEF TypeInv, TypeOK

(* A step aims at the level that is due, and at the level there is.        *)
LEMMA AimStep ==
  ASSUME TypeInv, PlaceInv, HeldInv, AloneInv, ~overlapped, [Next]_vars,
         \A b \in Actors : AimOf(b), NEW b \in Actors
  PROVE  AimOf(b)'
  <1> USE DEF AimOf
  <1>1. CASE SyncsNothing
    <2>1. Tier' = Tier
      BY <1>1, TierKept DEF SyncsNothing, Active
    <2> QED
      BY <1>1, <2>1 DEF SyncsNothing, Levelled
  <1>2. ASSUME NEW a \in Actors, SyncStep(a) PROVE AimOf(b)'
    <2> USE DEF TypeInv, TypeOK, rowVars, tierVars, Goto, Drop
    <2>1. b = a \/ pc'[b] = "idle"
      BY <1>2, SyncAlone
    <2>2. CASE Records(a)
      BY <2>1, <2>2 DEF Records
    <2>3. CASE Closes(a)
      BY <2>1, <2>3 DEF Closes
    <2>4. CASE Unpaid(a)
      BY <2>1, <2>4 DEF Unpaid
    <2>5. CASE FindsNoRow(a)
      BY <2>1, <2>5 DEF FindsNoRow
    <2>6. CASE ReadTier(a)
      <3>1. Tier' = Tier
        BY <2>6, TierKept DEF ReadTier, Active
      <3> QED
        BY <2>1, <2>6, <3>1 DEF ReadTier
    <2>7. CASE WriteLevel(a)
      BY <2>1, <2>7 DEF WriteLevel
    <2>8. CASE ReadTeam(a)
      BY <2>1, <2>8 DEF ReadTeam
    <2>9. CASE MovesOn(a) \/ Answers(a)
      BY <2>1, <2>9 DEF MovesOn, Answers, Moves
    <2> QED
      BY <1>2, <2>2, <2>3, <2>4, <2>5, <2>6, <2>7, <2>8, <2>9 DEF SyncStep
  <1> QED
    BY <1>1, <1>2, SyncSteps

(* Who owes the level while a step leaves status and level alone owes it   *)
(* still.                                                                  *)
LEMMA OwedKept ==
  ASSUME TypeInv, PlaceInv, HeldInv, AloneInv, ~overlapped, [Next]_vars,
         NEW L \in SUBSET Written, "finish" \in L, Owed(L),
         \A b \in Actors : pc'[b] \in L /\ pc[b] \notin L
            => op[b] # "checkout" /\ status[on[b]] = "none"
  PROVE  Owed(L)'
  <1>1. PICK q \in Subs, m \in Notices : WillSync(q, m, L)
    BY DEF Owed
  <1>2. \A b \in Actors : op[b] = m /\ on[b] = q /\ pc'[b] \in L => pc[b] \in L
    BY <1>1 DEF WillSync
  <1>3. WillSync(q, m, L)'
    BY <1>1, <1>2, SyncKept
  <1> QED
    BY <1>3 DEF Owed

(* A level that is not due will be put right. *)
LEMMA LevelStep ==
  ASSUME TypeInv, PlaceInv, HeldInv, EndedInv, AloneInv, ~overlapped, [Next]_vars,
         TypeInv', PlaceInv', HeldInv', AloneInv', ~overlapped',
         \A s \in Subs : RowOf(s), \A b \in Actors : AimOf(b),
         level # Tier => Owed(Levelled)
  PROVE  (level # Tier => Owed(Levelled))'
  <1> SUFFICES ASSUME level' # Tier' PROVE Owed(Levelled)'
    OBVIOUS
  <1>0. Levelled \in SUBSET Written /\ "finish" \in Levelled
    BY DEF Levelled, Written
  <1>1. CASE SyncsNothing
    <2>1. Tier' = Tier /\ level' = level
      BY <1>1, TierKept DEF SyncsNothing, Active
    <2> QED
      BY <1>0, <1>1, <2>1, OwedKept DEF SyncsNothing
  <1>2. ASSUME NEW a \in Actors, SyncStep(a) PROVE Owed(Levelled)'
    <2>1. /\ on[a] \in Subs /\ op[a] \in Asked
          /\ \A b \in Actors \ {a} : pc[b] = "idle" /\ op[b] = "none" /\ pc'[b] = "idle"
      BY <1>2, SyncAlone
    <2>2. ASSUME level # Tier, pc'[a] \notin Levelled \/ pc[a] \in Levelled PROVE Owed(Levelled)'
      BY <1>0, <2>1, <2>2, OwedKept DEF Levelled
    <2>3. ASSUME op'[a] \in Notices, op'[a] = "checkout" \/ status'[on'[a]] # "none",
                 pc'[a] \notin Levelled
          PROVE  Owed(Levelled)'
      BY <1>0, <2>3, HandlerSyncs DEF Owed
    <2>4. UNCHANGED status => Tier' = Tier
      BY TierKept DEF Active
    <2>5. CASE Records(a)
      <3>1. /\ level' = level /\ pc'[a] = "tier" /\ op' = op /\ on' = on
            /\ status' = [status EXCEPT ![on[a]] = MapStripeStatus(seen[a].state)]
            /\ seen[a].state # "none" /\ pc[a] \in {"cancelOthers", "apply"}
        BY <2>5 DEF Records, Goto, tierVars, TypeInv, TypeOK
      <3>2. status'[on[a]] # "none"
        BY <2>1, <3>1 DEF MapStripeStatus, TypeInv, TypeOK, Live
      <3>3. CASE op[a] \in Notices
        BY <2>3, <3>1, <3>2, <3>3 DEF Levelled
      <3>4. CASE op[a] \in {"cancel", "resume"}
        <4>1. seen[a].state = "canceled" /\ state[on[a]] = "canceled"
          BY <3>1, <3>4 DEF PlaceInv, EndedInv
        <4>2. status'[on[a]] = "CANCELLED"
          BY <2>1, <3>1, <4>1 DEF MapStripeStatus, TypeInv, TypeOK
        <4>3. CASE level # Tier
          BY <2>2, <3>1, <4>3 DEF Levelled
        <4>4. CASE level = Tier
          <5>1. Tier' # Tier
            BY <3>1, <4>4
          <5>2. Active(on[a])
            <6>1. CASE ~Active(on[a])
              <7>1. \A s \in Subs : Active(s)' <=> Active(s)
                BY <2>1, <3>1, <4>2, <6>1 DEF Active, TypeInv, TypeOK
              <7> QED
                BY <5>1, <7>1, TierKept
            <6> QED
              BY <6>1
          <5>3. status[on[a]] # "none" /\ Differs(on[a])
            BY <4>1, <5>2 DEF Active, Differs, MapStripeStatus
          <5>4. Due(on[a], "change", Written)
            BY <2>1, <5>3 DEF RowOf
          <5>5. WillSync(on[a], "change", Levelled)
            BY <1>0, <5>3, <5>4 DEF WillSync, Due
          <5>6. PICK q \in Subs : q = on[a]
            BY <2>1
          <5>7. \A b \in Actors : op[b] = "change" /\ on[b] = q /\ pc'[b] \in Levelled
                  => pc[b] \in Levelled
            BY <2>1, <3>1 DEF Levelled
          <5>8. WillSync(q, "change", Levelled) /\ "change" \in Notices
            BY <5>5, <5>6 DEF Notices
          <5>9. WillSync(q, "change", Levelled)'
            BY <1>0, <5>7, <5>8, SyncKept
          <5> QED
            BY <5>8, <5>9 DEF Owed
        <4> QED
          BY <4>3, <4>4
      <3> QED
        BY <2>1, <3>3, <3>4 DEF Asked, Notices
    <2>6. CASE Closes(a)
      BY <2>3, <2>6 DEF Closes, Goto, PlaceInv, Notices, Levelled, TypeInv, TypeOK
    <2>7. CASE Unpaid(a)
      BY <2>3, <2>7 DEF Unpaid, Goto, PlaceInv, Notices, Levelled, TypeInv, TypeOK
    <2>8. CASE FindsNoRow(a)
      <3>1. UNCHANGED <<status, level>> /\ status[on[a]] = "none" /\ op[a] # "checkout"
        BY <2>8 DEF FindsNoRow, AllButActors, rowVars, tierVars
      <3> QED
        BY <1>0, <2>1, <2>4, <3>1, OwedKept DEF Levelled
    <2>9. CASE ReadTier(a)
      <3>1. UNCHANGED <<status, level>> /\ (level # Tier => pc'[a] = "level")
        BY <2>9 DEF ReadTier, Goto, rowVars, tierVars, TypeInv, TypeOK
      <3> QED
        BY <2>2, <2>4, <3>1 DEF Levelled
    <2>10. CASE WriteLevel(a)
      BY <2>4, <2>10 DEF WriteLevel, rowVars, AimOf
    <2>11. CASE ReadTeam(a)
      BY <2>2, <2>4, <2>11 DEF ReadTeam, rowVars, tierVars, Levelled
    <2>12. CASE MovesOn(a) \/ Answers(a)
      BY <2>2, <2>4, <2>12 DEF MovesOn, Answers, Moves, rowVars, tierVars, Levelled
    <2> QED
      BY <1>2, <2>5, <2>6, <2>7, <2>8, <2>9, <2>10, <2>11, <2>12 DEF SyncStep
  <1> QED
    BY <1>1, <1>2, SyncSteps

(* A team that does not fit the level will be put right. *)
LEMMA TeamStep ==
  ASSUME TypeInv, PlaceInv, HeldInv, AloneInv, ~overlapped, [Next]_vars,
         TypeInv', PlaceInv', HeldInv', AloneInv', ~overlapped',
         \A b \in Actors : AimOf(b),
         level # Tier => Owed(Levelled),
         ~(team <=> level \in TeamPlans) => Owed(Moved)
  PROVE  (~(team <=> level \in TeamPlans) => Owed(Moved))'
  <1> SUFFICES ASSUME ~(team <=> level \in TeamPlans)' PROVE Owed(Moved)'
    OBVIOUS
  <1>0. Moved \in SUBSET Written /\ "finish" \in Moved
    BY DEF Moved, Written
  <1>1. CASE SyncsNothing
    BY <1>0, <1>1, OwedKept DEF SyncsNothing, Levelled, Moved
  <1>2. ASSUME NEW a \in Actors, SyncStep(a) PROVE Owed(Moved)'
    <2>1. /\ on[a] \in Subs /\ op[a] \in Asked
          /\ \A b \in Actors \ {a} : pc[b] = "idle" /\ op[b] = "none" /\ pc'[b] = "idle"
      BY <1>2, SyncAlone
    <2>2. ASSUME Owed(Moved), pc'[a] # "finish" PROVE Owed(Moved)'
      BY <1>0, <2>1, <2>2, OwedKept DEF Moved
    <2>3. ASSUME UNCHANGED <<level, team>>, pc'[a] # "finish" PROVE Owed(Moved)'
      BY <2>2, <2>3
    <2> USE DEF TypeInv, TypeOK, rowVars, tierVars, Goto
    <2>4. CASE Records(a)
      BY <2>3, <2>4 DEF Records
    <2>5. CASE Closes(a)
      BY <2>3, <2>5 DEF Closes
    <2>6. CASE Unpaid(a)
      BY <2>3, <2>6 DEF Unpaid
    <2>7. CASE FindsNoRow(a)
      <3>1. UNCHANGED <<level, team>> /\ status[on[a]] = "none" /\ op[a] # "checkout"
        BY <2>7 DEF FindsNoRow, AllButActors
      <3> QED
        BY <1>0, <2>1, <3>1, OwedKept DEF Moved
    <2>8. CASE ReadTier(a)
      BY <2>3, <2>8 DEF ReadTier
    <2>9. CASE WriteLevel(a)
      <3>1. Owed(Levelled)
        BY <2>9 DEF WriteLevel, AimOf
      <3>2. Owed(Moved)
        BY <3>1 DEF Owed, WillSync, Due, Moved, Levelled
      <3> QED
        BY <2>2, <2>9, <3>2 DEF WriteLevel
    <2>10. CASE ReadTeam(a)
      BY <2>3, <2>10 DEF ReadTeam
    <2>11. CASE MovesOn(a) \/ Answers(a)
      BY <2>11 DEF MovesOn, Answers, Moves, AimOf
    <2> QED
      BY <1>2, <2>4, <2>5, <2>6, <2>7, <2>8, <2>9, <2>10, <2>11 DEF SyncStep
  <1> QED
    BY <1>1, <1>2, SyncSteps

-----------------------------------------------------------------------------
(* What holds of any interleaving. *)
AnyInv == TypeInv /\ PlaceInv /\ CountInv /\ EndedInv /\ AloneInv

(* It holds of every behaviour, with a notice for every handler at work. *)
LEMMA AnyInvariant == Spec => [](AnyInv /\ HeldInv)
  <1>1. Init => AnyInv
    <2> SUFFICES ASSUME Init PROVE AnyInv
      OBVIOUS
    <2> USE PlanAssumption DEF Init, Notices, Live, NothingSeen
    <2>1. RowsInOrder
      BY DEF RowsInOrder, Active
    <2>2. TypeInv
      BY <2>1 DEF TypeInv, TypeOK, PCs
    <2>3. PlaceInv
      BY DEF PlaceInv, Reading, Written, Moved, Asked
    <2>4. CountInv
      <3> SUFFICES ASSUME NEW s \in Subs, NEW n \in Notices PROVE Counted(s, n)
        BY DEF CountInv
      <3>1. At(s, n) = {}
        BY DEF At
      <3>2. mail[s][n] = 0
        OBVIOUS
      <3> QED
        BY <3>1, <3>2, FS_EmptySet DEF Counted
    <2>5. EndedInv /\ AloneInv
      BY DEF EndedInv, AloneInv, Reading
    <2> QED
      BY <2>2, <2>3, <2>4, <2>5 DEF AnyInv
  <1>2. AnyInv => HeldInv
    BY CountHeld DEF AnyInv
  <1>3. AnyInv /\ [Next]_vars => AnyInv'
    BY <1>2, TypeStep, PlaceStep, CountStep, EndedStep, AloneStep DEF AnyInv
  <1> QED
    BY <1>1, <1>2, <1>3, PTL DEF Spec

(* The types of PlatformPlan, of which one is that at most one row of the  *)
(* Profile is active and any two rows are ordered by when they were        *)
(* written: the index holds in every step that writes a row.               *)
THEOREM TypeCorrect == Spec => []TypeOK
  <1>1. AnyInv => TypeOK
    BY DEF AnyInv, TypeInv
  <1> QED
    BY <1>1, AnyInvariant, PTL

(* However many checkouts are paid at once, in whatever order their        *)
(* notices are handled and wherever a handler dies, the Profile is left    *)
(* with one plan that is billed, as long as no renewal was refused.        *)
THEOREM OnePlanIsBilled == Spec => []BilledOnce
  <1>1. Init => BillInv
    BY DEF Init, BillInv, NothingSeen, Notices, Written
  <1>2. (AnyInv /\ HeldInv) /\ BillInv /\ [Next]_vars => BillInv'
    BY BillStep DEF AnyInv
  <1>3. AnyInv /\ BillInv => BilledOnce
    <2> SUFFICES ASSUME AnyInv, BillInv, Quiet, ~dunned,
                        NEW s \in Subs, NEW o \in Subs, state[s] \in Live, state[o] \in Live
                 PROVE  s = o
      BY DEF BilledOnce
    <2>1. state[s] = "active" /\ state[o] = "active"
      BY DEF BillInv, Live
    <2>2. mail[s]["checkout"] = 0 /\ mail[o]["checkout"] = 0
      BY DEF Quiet, Notices
    <2>3. Active(s) /\ Active(o)
      BY <2>1, <2>2 DEF BillInv
    <2> QED
      BY <2>3 DEF AnyInv, TypeInv, TypeOK, RowsInOrder
  <1> QED
    BY <1>1, <1>2, <1>3, AnyInvariant, PTL DEF Spec

(* What an actor reads is never outdated without a notice on its way.      *)
LEMMA SeenInvariant == Spec => []SeenInv
  <1>1. Init => SeenInv
    BY DEF Init, SeenInv, SeenOf, Reading
  <1>2. (AnyInv /\ HeldInv) /\ (AnyInv /\ HeldInv)' /\ SeenInv /\ [Next]_vars => SeenInv'
    BY SeenStep, HistoryGrows DEF AnyInv, SeenInv, Grows
  <1> QED
    BY <1>1, <1>2, AnyInvariant, PTL DEF Spec

(* A row that shows an ended plan as active has a notice on its way, as    *)
(* long as no two actors overlapped, wherever a handler died and whatever  *)
(* the index refused.                                                      *)
THEOREM StaleRowsAreNoticed == Spec => []StaleRowHasNotice
  <1>1. Init => StaleInv
    BY DEF Init, StaleInv, StaleOf, Active
  <1>2. (AnyInv /\ HeldInv) /\ (AnyInv /\ HeldInv)' /\ SeenInv /\ StaleInv /\ [Next]_vars
           => StaleInv'
    BY StaleStep, HistoryGrows DEF AnyInv, StaleInv, Grows
  <1>3. StaleInv => StaleRowHasNotice
    BY DEF StaleInv, StaleOf, StaleRowHasNotice, Due
  <1> QED
    BY <1>1, <1>2, <1>3, AnyInvariant, SeenInvariant, PTL DEF Spec

(* Once nothing is left to handle, the rows say what Stripe says and the   *)
(* level and the team are those of the active row, unless two actors       *)
(* overlapped or a notice of a failed payment came too late.               *)
THEOREM QuietRowsAgree == Spec => []QuietAgrees
  <1> DEFINE Agrees == RowsInv /\ TierInv
  <1>1. Init => Agrees
    <2> SUFFICES ASSUME Init PROVE Agrees
      OBVIOUS
    <2>1. level = Tier
      BY DEF Init, Tier, Active
    <2>2. ~(level \in TeamPlans) /\ team = FALSE
      BY PlanAssumption DEF Init
    <2>3. \A a \in Actors : pc[a] = "idle"
      BY DEF Init
    <2>4. \A s \in Subs : state[s] = "none" /\ status[s] = "none"
      BY DEF Init
    <2> QED
      BY <2>1, <2>2, <2>3, <2>4 DEF RowsInv, RowOf, MarkOf, TierInv, AimOf
  <1>2. (AnyInv /\ HeldInv) /\ (AnyInv /\ HeldInv)' /\ SeenInv /\ Agrees /\ [Next]_vars => Agrees'
    <2> SUFFICES ASSUME AnyInv, HeldInv, AnyInv', HeldInv', SeenInv, Agrees, [Next]_vars,
                        ~overlapped', ~misled'
                 PROVE  Agrees'
      BY DEF RowsInv, TierInv
    <2> USE DEF AnyInv
    <2>1. ~overlapped /\ ~misled
      BY HistoryGrows DEF Grows
    <2>2. (\A s \in Subs : RowOf(s)) /\ (\A a \in Actors : MarkOf(a) /\ AimOf(a))
      BY <2>1 DEF RowsInv, TierInv
    <2>3. (level # Tier => Owed(Levelled)) /\ (~(team <=> level \in TeamPlans) => Owed(Moved))
      BY <2>1 DEF TierInv
    <2>4. ASSUME NEW s \in Subs PROVE RowOf(s)'
      BY <2>1, <2>2, RowStep
    <2>5. ASSUME NEW a \in Actors PROVE MarkOf(a)'
      BY <2>1, <2>2, MarkStep
    <2>6. ASSUME NEW a \in Actors PROVE AimOf(a)'
      BY <2>1, <2>2, AimStep
    <2>7. (level # Tier => Owed(Levelled))'
      BY <2>1, <2>2, <2>3, LevelStep
    <2>8. (~(team <=> level \in TeamPlans) => Owed(Moved))'
      BY <2>1, <2>2, <2>3, TeamStep
    <2> QED
      BY <2>4, <2>5, <2>6, <2>7, <2>8 DEF RowsInv, TierInv
  <1>3. AnyInv /\ Agrees => QuietAgrees
    <2> SUFFICES ASSUME AnyInv, Agrees, Quiet, ~overlapped, ~misled
                 PROVE  /\ \A s \in Subs : session[s] = "paid" =>
                              /\ status[s] = MapStripeStatus(state[s])
                              /\ state[s] \in Live => (s \in cancelled <=> s \in atEnd)
                        /\ level = Tier
                        /\ team = (level \in TeamPlans)
      BY DEF QuietAgrees
    <2>1. \A s \in Subs, n \in Notices : mail[s][n] = 0
      BY DEF Quiet
    <2>2. \A s \in Subs, n \in Notices : ~(mail[s][n] > 0)
      BY <2>1
    <2>3. \A L : ~Owed(L)
      BY <2>2 DEF Owed, WillSync, Due
    <2>4. ASSUME NEW s \in Subs, session[s] = "paid"
          PROVE  /\ status[s] = MapStripeStatus(state[s])
                 /\ state[s] \in Live => (s \in cancelled <=> s \in atEnd)
      <3>1. state[s] # "none"
        BY <2>4 DEF AnyInv, PlaceInv
      <3>2. status[s] # "none"
        BY <2>2, <3>1 DEF RowsInv, RowOf, Notices
      <3>3. ~Differs(s)
        BY <2>2, <3>2 DEF RowsInv, RowOf, Due, Notices
      <3> QED
        BY <3>3 DEF Differs
    <2>5. level = Tier /\ (team <=> level \in TeamPlans)
      BY <2>3 DEF TierInv
    <2>6. team \in BOOLEAN
      BY DEF AnyInv, TypeInv, TypeOK
    <2>7. team = (level \in TeamPlans)
      BY <2>5, <2>6, Zenon
    <2> QED
      BY <2>4, <2>5, <2>7
  <1> HIDE DEF Agrees
  <1> QED
    BY <1>1, <1>2, <1>3, AnyInvariant, SeenInvariant, PTL DEF Spec
=============================================================================
