-------------------------- MODULE VethCreate_proofs --------------------------
(***************************************************************************)
(* What create_veth promises of the kernel's devices, for any deadline:    *)
(* the safety properties of VethCreate, from one inductive invariant that  *)
(* says, for each stage, where the two ends are and whose device the index *)
(* in hand is.                                                             *)
(***************************************************************************)
EXTENDS VethCreate, TLAPS

Places  == {"root temporary", "node temporary", "node final"}
Devices == [at : Places \cup {"nowhere"}, alias : BOOLEAN, mtu : BOOLEAN, up : BOOLEAN,
            disc : BOOLEAN]

Creating    == {"lookup", "add"}
Moving      == {"find", "own", "move"}
Configuring == {"open", "adopt", "rename", "mtu", "up", "qdisc"}

TypeInv ==
  /\ pc \in Creating \cup Moving \cup Configuring \cup {"clean"} \cup Final
  /\ end \in Ends
  /\ dev \in [Ends -> Devices]
  /\ foreign \subseteq Slots
  /\ moved \subseteq Ends /\ renamed \subseteq Ends

(* The kernel: two devices have no name in common.                          *)
Apart == \A e \in Ends : <<e, dev[e].at>> \notin foreign

(* No pair before it is made.                                               *)
AtCreation ==
  pc \in Creating => /\ \A e \in Ends : dev[e] = Absent
                     /\ end = "left" /\ moved = {} /\ renamed = {}

(* Our token is on no device of others that is not counted as harmed, and   *)
(* the work goes on to configuration only if no move was left unanswered.   *)
Counted ==
  /\ marked \subseteq harmed
  /\ pc \in Creating \cup Configuring => "move answer lost" \notin dirty

(* While ends are moved: it is known where the end is that is not in hand,  *)
(* and the one in hand has left without an answer or not at all.            *)
AtMoving ==
  pc \in Moving =>
    /\ \A e \in Ends : ~dev[e].disc
    /\ renamed = {}
    /\ moved = IF end = "left" THEN {} ELSE {"left"}
    /\ \/ dev[end].at = "root temporary" /\ "move answer lost" \notin dirty
       \/ dev[end].at = "node temporary" /\ "move answer lost" \in dirty
    /\ end = "left" => /\ dev["right"].at = "root temporary"
                       /\ dev["right"].alias \/ "alias lost" \in dirty
    /\ end = "right" => dev["left"].at = "node temporary" /\ dev["left"].alias

Configured(e) ==
  /\ e \in renamed
  /\ dev[e].at = "node final" /\ dev[e].alias /\ dev[e].mtu /\ dev[e].up

(* While ends are configured: the first is done before the second.          *)
AtConfiguring ==
  pc \in Configuring =>
    /\ moved = Ends
    /\ \A e \in Ends : dev[e].at \in {"node temporary", "node final"} /\ dev[e].alias
    /\ \A e \in renamed : dev[e].at = "node final"
    /\ end = "left" => /\ dev["right"].at = "node temporary" /\ ~dev["right"].disc
                       /\ "right" \notin renamed
    /\ end = "right" => Configured("left")
    /\ dev[end].disc => "tc answer lost" \in dirty

(* The index in hand.  It may be another's device that took a temporary     *)
(* name, but then our end has the name it is to get next.                   *)
InHand ==
  /\ pc \in {"mtu", "up", "qdisc"} => found = <<end, "ours">>
  /\ pc \in {"own", "move"} =>
       \/ found = <<end, "ours">> /\ dev[end].at = "root temporary"
       \/ found = <<end, "root temporary">> /\ found \in foreign
          /\ dev[end].at = "node temporary"
  /\ pc = "move" /\ dev[end].at = "root temporary" => dev[end].alias
  /\ pc = "rename" => \/ found = <<end, "ours">> /\ dev[end].at = "node temporary"
                      \/ found \in foreign /\ dev[end].at = "node final"
  /\ pc \in {"mtu", "up", "qdisc"} => end \in renamed
  /\ pc \in {"up", "qdisc"} => dev[end].mtu
  /\ pc = "qdisc" => dev[end].up

(* The clean-up finds at least one end with its token, and nothing before   *)
(* it in the same place, if there is a pair.                                *)
Before(e) == <<"left", "root temporary">> \in marked /\ e = "right"
             /\ dev["right"].at = "root temporary"
Reachable(e) == dev[e].at = Guess(e) /\ dev[e].alias /\ ~Before(e)
AtCleanUp == pc = "clean" => Gone \/ Stray \/ \E e \in Ends : Reachable(e)

Inv ==
  /\ TypeInv /\ Apart /\ AtCreation /\ AtMoving /\ AtConfiguring /\ InHand /\ AtCleanUp
  /\ Counted /\ OthersUnharmed /\ ReturnsConfigured /\ RetriesDoNotCollide /\ LeftoverIsVisible

-----------------------------------------------------------------------------
(* What an answer may lead to.                                              *)

LEMMA FailsTo ==
  ASSUME NEW label, Fails(label)
  PROVE  \/ pc' = label /\ cause' = cause
         \/ pc' = "clean" /\ cause' \in {"expired", "hard"}
  BY DEF Fails, Retry, Raise

LEMMA RetryTo ==
  ASSUME NEW label, Retry(label)
  PROVE  \/ pc' = label /\ cause' = cause
         \/ pc' = "clean" /\ cause' \in {"expired", "hard"}
  BY DEF Retry, Raise

LEMMA InitInv == Init => Inv
  BY DEF Init, Inv, TypeInv, Apart, AtCreation, AtMoving, AtConfiguring, InHand, AtCleanUp,
         Counted, OthersUnharmed, ReturnsConfigured, RetriesDoNotCollide, LeftoverIsVisible,
         Gone, Creating, Moving, Configuring, Final, Ends, Devices, Places, Absent, Slots

(* The parts of the invariant, for a step of the proof.                     *)
LEMMA KeptInv ==
  ASSUME TypeInv', Apart', AtCreation', AtMoving', AtConfiguring', InHand', AtCleanUp',
         Counted', OthersUnharmed', ReturnsConfigured', RetriesDoNotCollide', LeftoverIsVisible'
  PROVE  Inv'
  BY DEF Inv

(* Where no move was left unanswered, nothing of others was touched.        *)
LEMMA Untouched ==
  ASSUME Counted, OthersUnharmed, pc \in Creating \cup Configuring
  PROVE  harmed = {} /\ marked = {} /\ "move answer lost" \notin dirty
  BY DEF Counted, OthersUnharmed

(* What is harmed and what has our token are as before.                     *)
LEMMA StillCounted ==
  ASSUME Counted, OthersUnharmed, UNCHANGED <<harmed, marked>>, dirty \subseteq dirty',
         harmed = {} \/ end' = end,
         pc' \in Creating \cup Configuring => "move answer lost" \notin dirty'
  PROVE  Counted' /\ OthersUnharmed'
  BY DEF Counted, OthersUnharmed

LEMMA NotYetMade ==
  ASSUME AtCreation, pc \in Creating, UNCHANGED dev
  PROVE  Gone /\ Gone'
<1>1. \A e \in Ends : dev[e] = Absent
  BY DEF AtCreation
<1>2. Absent.at = "nowhere"
  BY DEF Absent
<1> QED
  BY <1>1, <1>2 DEF Gone

LEMMA StepLookup == Inv /\ Lookup => Inv'
<1> SUFFICES ASSUME Inv, Lookup PROVE Inv'
  OBVIOUS
<1> USE DEF Inv, Lookup, Step, Refuse
<1>1. TypeInv'
  BY DEF TypeInv, Creating, Final
<1>2. Apart' /\ Counted' /\ OthersUnharmed'
  BY DEF Apart, Counted, OthersUnharmed, Creating, Configuring
<1>3. AtCreation' /\ AtMoving' /\ AtConfiguring' /\ InHand' /\ AtCleanUp'
  BY DEF AtCreation, AtMoving, AtConfiguring, InHand, AtCleanUp, Creating, Moving, Configuring
<1>4. ReturnsConfigured' /\ RetriesDoNotCollide'
  BY DEF ReturnsConfigured, RetriesDoNotCollide
<1>5. LeftoverIsVisible'
  BY NotYetMade DEF LeftoverIsVisible, Creating
<1> QED
  BY <1>1, <1>2, <1>3, <1>4, <1>5

LEMMA StepAddPair == Inv /\ AddPair => Inv'
<1> SUFFICES ASSUME Inv, AddPair PROVE Inv'
  OBVIOUS
<1>0. /\ AtCreation /\ TypeInv /\ Apart /\ Counted /\ OthersUnharmed /\ RetriesDoNotCollide
      /\ pc = "add" /\ harmed = {} /\ marked = {} /\ "move answer lost" \notin dirty
  BY Untouched DEF Inv, AddPair, Creating
<1>1. /\ \A e \in Ends : dev[e] = Absent
      /\ end = "left" /\ moved = {} /\ renamed = {}
  BY <1>0 DEF AtCreation, Creating
<1>2. CASE /\ \E e \in Ends : <<e, "root temporary">> \in foreign
           /\ NoEffect /\ Refuse("exists")
           /\ UNCHANGED <<dirty, end, foreign, marked, found, moved, renamed>>
  <2>1. Gone'
    BY <1>0, <1>2, NotYetMade DEF NoEffect, Creating
  <2>2. TypeInv' /\ Apart' /\ Counted' /\ OthersUnharmed'
    BY <1>0, <1>2 DEF TypeInv, Apart, Counted, OthersUnharmed, NoEffect, Refuse, Final
  <2>3. AtCreation' /\ AtMoving' /\ AtConfiguring' /\ InHand' /\ ReturnsConfigured'
    BY <1>2 DEF Refuse, AtCreation, AtMoving, AtConfiguring, InHand, ReturnsConfigured,
                Creating, Moving, Configuring
  <2>4. AtCleanUp' /\ LeftoverIsVisible'
    BY <2>1 DEF AtCleanUp, LeftoverIsVisible
  <2>5. RetriesDoNotCollide'
    BY <1>2 DEF RetriesDoNotCollide, Refuse
  <2> QED
    BY <2>1, <2>2, <2>3, <2>4, <2>5, KeptInv
<1>3. CASE NoEffect /\ Raise("hard") /\ UNCHANGED <<dirty, end, foreign, marked, found, moved, renamed>>
  <2>1. Gone'
    BY <1>0, <1>3, NotYetMade DEF NoEffect, Creating
  <2>2. TypeInv' /\ Apart' /\ Counted' /\ OthersUnharmed'
    BY <1>0, <1>3 DEF TypeInv, Apart, Counted, OthersUnharmed, NoEffect, Raise, Final
  <2>3. AtCreation' /\ AtMoving' /\ AtConfiguring' /\ InHand' /\ ReturnsConfigured'
    BY <1>3 DEF Raise, AtCreation, AtMoving, AtConfiguring, InHand, ReturnsConfigured,
                Creating, Moving, Configuring
  <2>4. AtCleanUp' /\ LeftoverIsVisible'
    BY <2>1 DEF AtCleanUp, LeftoverIsVisible
  <2>5. RetriesDoNotCollide'
    BY <1>3 DEF RetriesDoNotCollide, Raise
  <2> QED
    BY <2>1, <2>2, <2>3, <2>4, <2>5, KeptInv
<1>4. ASSUME NEW a \in [Ends -> BOOLEAN], MakePair(a),
             \A e \in Ends : <<e, "root temporary">> \notin foreign,
             dirty' = dirty \cup (IF \A e \in Ends : a[e] THEN {} ELSE {"alias lost"}),
             \/ pc' = "find" /\ left' = Patience /\ UNCHANGED cause
             \/ Raise("hard"),
             UNCHANGED <<end, foreign, marked, found, moved, renamed>>
      PROVE  Inv'
  <2>1. \A e \in Ends : /\ dev'[e] = Fresh(a[e])
                        /\ dev'[e].at = "root temporary" /\ dev'[e].alias = a[e] /\ ~dev'[e].disc
    BY <1>4 DEF MakePair, Fresh, Absent
  <2>2. TypeInv'
    <3>1. dev' \in [Ends -> Devices]
      BY <1>4 DEF MakePair, Fresh, Absent, Devices, Places
    <3> QED
      BY <3>1, <1>0, <1>4 DEF TypeInv, Moving, Raise
  <2>3. Apart' /\ Counted' /\ OthersUnharmed' /\ marked' = {}
        /\ "move answer lost" \notin dirty'
    BY <2>1, <1>0, <1>4 DEF Apart, Counted, OthersUnharmed, MakePair
  <2>4. (\E e \in Ends : ~a[e]) => "alias lost" \in dirty'
    BY <1>4
  <2>5. AtMoving'
    BY <2>1, <2>3, <2>4, <1>1, <1>4 DEF AtMoving, Ends, Raise, Moving
  <2>6. AtCleanUp'
    BY <2>1, <2>3, <2>4, <1>1, <1>4 DEF AtCleanUp, Stray, Reachable, Before, Guess, Ends
  <2>7. AtCreation' /\ AtConfiguring' /\ InHand' /\ ReturnsConfigured' /\ LeftoverIsVisible'
    BY <1>4 DEF AtCreation, AtConfiguring, InHand, Raise, Creating, Configuring,
                ReturnsConfigured, LeftoverIsVisible
  <2>8. RetriesDoNotCollide'
    BY <1>0, <1>4 DEF RetriesDoNotCollide, Raise
  <2> QED
    BY <2>2, <2>3, <2>5, <2>6, <2>7, <2>8, KeptInv
<1> QED
  BY <1>2, <1>3, <1>4 DEF AddPair

-----------------------------------------------------------------------------
(* Facts that several steps use.                                            *)

(* A change to the index in hand, when that is ours.                        *)
LEMMA ChangeOurs ==
  ASSUME TypeInv, found = <<end, "ours">>, NEW next, Change(found, next)
  PROVE  dev' = [dev EXCEPT ![end] = next] /\ harmed' = harmed
<1>1. found \in Ours /\ found \notin Slots /\ found[1] = end
  BY DEF TypeInv, Ours, Slots
<1> QED
  BY <1>1 DEF Change

(* A change to the index in hand, when another device has taken the name.   *)
LEMMA ChangeOther ==
  ASSUME found \in Slots, NEW next, Change(found, next)
  PROVE  dev' = dev /\ harmed' = harmed \cup {found}
<1>1. found \notin Ours
  BY DEF Ours, Slots
<1> QED
  BY <1>1 DEF Change

LEMMA SlotsOrOurs ==
  ASSUME NEW e \in Ends
  PROVE  /\ <<e, "root temporary">> \in Slots /\ <<e, "root temporary">> \notin Ours
         /\ <<e, "ours">> \in Ours /\ <<e, "ours">> \notin Slots
  BY DEF Ours, Slots

(* A step inside a stage that leaves the other end alone keeps what the     *)
(* stage knows, and what the clean-up needs.                                *)
LEMMA StillMoving ==
  ASSUME TypeInv, AtMoving, pc \in Moving, end' = end, UNCHANGED <<moved, renamed, foreign>>,
         \A e \in Ends \ {end} : dev'[e] = dev[e],
         \/ dev'[end].at = "root temporary" /\ "move answer lost" \notin dirty'
         \/ dev'[end].at = "node temporary" /\ "move answer lost" \in dirty',
         ~dev'[end].disc, dirty \subseteq dirty', marked' \subseteq harmed'
  PROVE  AtMoving' /\ AtCleanUp'
<1>1. end \in Ends /\ Ends = {"left", "right"}
  BY DEF TypeInv, Ends
<1>2. AtMoving'
  BY <1>1 DEF AtMoving
<1>3. CASE end = "left"
  <2>1. /\ dev'["right"].at = "root temporary"
        /\ dev'["right"].alias \/ "alias lost" \in dirty'
        /\ Guess("right")' = "root temporary"
    BY <1>1, <1>3 DEF AtMoving, Guess
  <2>2. CASE harmed' # {} \/ "alias lost" \in dirty'
    <3>1. Stray'
      BY <2>1, <2>2 DEF Stray
    <3> QED
      BY <1>2, <3>1 DEF AtCleanUp
  <2>3. CASE harmed' = {} /\ "alias lost" \notin dirty'
    <3>1. ~Before("right")'
      BY <2>3 DEF Before
    <3>2. Reachable("right")'
      BY <2>1, <2>3, <3>1 DEF Reachable
    <3> QED
      BY <1>1, <1>2, <3>2 DEF AtCleanUp
  <2> QED
    BY <2>2, <2>3
<1>4. CASE end = "right"
  <2>1. /\ dev'["left"].at = "node temporary" /\ dev'["left"].alias
        /\ Guess("left")' = "node temporary"
    BY <1>1, <1>4 DEF AtMoving, Guess
  <2> QED
    BY <1>1, <1>2, <2>1 DEF AtCleanUp, Reachable, Before
<1> QED
  BY <1>1, <1>2, <1>3, <1>4

LEMMA StillConfiguring ==
  ASSUME TypeInv, AtConfiguring, pc \in Configuring, end' = end, moved' = moved,
         renamed' = renamed \/ renamed' = renamed \cup {end},
         \A e \in Ends \ {end} : dev'[e] = dev[e],
         dev'[end].at \in {"node temporary", "node final"}, dev'[end].alias,
         end \in renamed' => dev'[end].at = "node final",
         dev'[end].disc => "tc answer lost" \in dirty'
  PROVE  AtConfiguring' /\ AtCleanUp'
<1>1. end \in Ends /\ Ends = {"left", "right"}
  BY DEF TypeInv, Ends
<1>2. /\ moved = Ends
      /\ \A e \in Ends : dev[e].at \in {"node temporary", "node final"} /\ dev[e].alias
      /\ \A e \in renamed : dev[e].at = "node final"
      /\ end = "left" => /\ dev["right"].at = "node temporary" /\ ~dev["right"].disc
                         /\ "right" \notin renamed
      /\ end = "right" => Configured("left")
  BY DEF AtConfiguring
<1>3. renamed \subseteq renamed' /\ renamed' \subseteq renamed \cup {end}
  OBVIOUS
<1>4. CASE end = "left"
  <2>1. dev'["right"] = dev["right"] /\ "right" \notin renamed'
    BY <1>1, <1>2, <1>3, <1>4
  <2>2. \A e \in renamed' : dev'[e].at = "node final"
    BY <1>1, <1>2, <1>3, <1>4, <2>1 DEF TypeInv
  <2>3. AtConfiguring'
    BY <1>1, <1>2, <1>4, <2>1, <2>2 DEF AtConfiguring
  <2>4. Reachable("right")'
    BY <1>1, <1>2, <1>4, <2>1 DEF Reachable, Before, Guess
  <2> QED
    BY <1>1, <2>3, <2>4 DEF AtCleanUp
<1>5. CASE end = "right"
  <2>1. dev'["left"] = dev["left"] /\ "left" \in renamed'
    BY <1>1, <1>2, <1>3, <1>5 DEF Configured
  <2>2. Configured("left")'
    BY <1>2, <1>5, <2>1 DEF Configured
  <2>3. \A e \in renamed' : dev'[e].at = "node final"
    BY <1>1, <1>2, <1>3, <1>5, <2>1, ZenonT(40) DEF TypeInv
  <2>4. AtConfiguring'
    BY <1>1, <1>2, <1>5, <2>1, <2>2, <2>3 DEF AtConfiguring
  <2>5. Reachable("left")'
    BY <2>2 DEF Reachable, Before, Guess, Configured
  <2> QED
    BY <1>1, <2>4, <2>5 DEF AtCleanUp
<1> QED
  BY <1>1, <1>4, <1>5

(* A step that ends neither well nor badly keeps the promises.              *)
LEMMA StillWorking ==
  ASSUME pc' \notin Creating \cup Final
  PROVE  AtCreation' /\ ReturnsConfigured' /\ LeftoverIsVisible'
  BY DEF AtCreation, ReturnsConfigured, LeftoverIsVisible, Final

-----------------------------------------------------------------------------
(* The ends are moved.                                                      *)

LEMMA StepFind == Inv /\ Find => Inv'
<1> SUFFICES ASSUME Inv, Find PROVE Inv'
  OBVIOUS
<1>0. /\ TypeInv /\ Apart /\ AtMoving /\ Counted /\ OthersUnharmed /\ RetriesDoNotCollide
      /\ pc = "find" /\ pc \in Moving /\ end \in Ends
  BY DEF Inv, Find, Moving, TypeInv
<1>1. UNCHANGED <<end, dev, foreign, harmed, marked, moved, renamed, dirty>>
  BY DEF Find
<1>2. /\ \/ pc' \in {"find", "own"} /\ cause' = cause
         \/ pc' = "clean" /\ cause' \in {"expired", "hard"}
      /\ pc' = "own" => found' \in Lookups(end, "root temporary") \ {Nothing}
  BY FailsTo, RetryTo DEF Find, Step
<1>3. pc' = "own" => \/ found' = <<end, "ours">> /\ dev[end].at = "root temporary"
                     \/ /\ found' = <<end, "root temporary">> /\ found' \in foreign
                        /\ dev[end].at = "node temporary"
  BY <1>0, <1>2 DEF Lookups, Holder, AtMoving, Apart
<1>4. AtMoving' /\ AtCleanUp'
  <2>1. /\ \/ dev[end].at = "root temporary" /\ "move answer lost" \notin dirty
           \/ dev[end].at = "node temporary" /\ "move answer lost" \in dirty
        /\ ~dev[end].disc /\ marked \subseteq harmed
    BY <1>0 DEF AtMoving, Counted
  <2> QED
    BY <1>0, <1>1, <2>1, StillMoving
<1>5. TypeInv'
  BY <1>0, <1>1, <1>2 DEF TypeInv, Moving
<1>6. Apart' /\ Counted' /\ OthersUnharmed'
  BY <1>0, <1>1, <1>2, StillCounted DEF Apart, Creating, Configuring
<1>7. AtConfiguring' /\ InHand'
  BY <1>1, <1>2, <1>3 DEF AtConfiguring, InHand, Configuring
<1>8. AtCreation' /\ ReturnsConfigured' /\ LeftoverIsVisible'
  BY <1>2, StillWorking DEF Creating, Final
<1>9. RetriesDoNotCollide'
  BY <1>0, <1>1, <1>2 DEF RetriesDoNotCollide
<1> QED
  BY <1>4, <1>5, <1>6, <1>7, <1>8, <1>9, KeptInv

LEMMA StepOwn == Inv /\ Own => Inv'
<1> SUFFICES ASSUME Inv, Own PROVE Inv'
  OBVIOUS
<1>0. /\ TypeInv /\ Apart /\ AtMoving /\ Counted /\ OthersUnharmed /\ RetriesDoNotCollide
      /\ pc = "own" /\ pc \in Moving /\ end \in Ends /\ ~dev[end].disc
      /\ dev \in [Ends -> Devices]
  BY DEF Inv, Own, Moving, TypeInv, AtMoving
<1>1. UNCHANGED <<end, foreign, found, moved, renamed, dirty>>
  BY DEF Own
<1>2. /\ \/ pc' \in {"find", "move"} /\ cause' = cause
         \/ pc' = "clean" /\ cause' \in {"expired", "hard"}
      /\ \/ Change(found, Aliased(found)) /\ marked' = marked \cup ({found} \cap Slots)
         \/ NoEffect /\ marked' = marked /\ pc' # "move"
  BY FailsTo DEF Own, Step
<1>3. CASE found = <<end, "ours">> /\ dev[end].at = "root temporary"
  <2>1. Aliased(found) = [dev[end] EXCEPT !.alias = TRUE]
    BY <1>3 DEF Aliased
  <2>2. Aliased(found) \in Devices /\ Aliased(found).alias
        /\ Aliased(found).at = dev[end].at /\ Aliased(found).disc = dev[end].disc
    BY <1>0, <2>1 DEF Devices
  <2>3. /\ dev' = dev \/ dev' = [dev EXCEPT ![end] = Aliased(found)]
        /\ pc' = "move" => dev' = [dev EXCEPT ![end] = Aliased(found)]
        /\ harmed' = harmed /\ marked' = marked
    BY <1>0, <1>2, <1>3, ChangeOurs, SlotsOrOurs DEF NoEffect
  <2>4. /\ dev'[end].at = "root temporary" /\ ~dev'[end].disc
        /\ pc' = "move" => dev'[end].alias
        /\ \A e \in Ends \ {end} : dev'[e] = dev[e]
        /\ \A e \in Ends : dev'[e].at = dev[e].at
        /\ dev' \in [Ends -> Devices]
    BY <1>0, <1>3, <2>2, <2>3
  <2>5. "move answer lost" \notin dirty /\ marked' \subseteq harmed'
    BY <1>0, <1>3, <2>3 DEF AtMoving, Counted
  <2>6. AtMoving' /\ AtCleanUp'
    BY <1>0, <1>1, <2>4, <2>5, StillMoving
  <2>7. TypeInv'
    BY <1>0, <1>1, <1>2, <2>4 DEF TypeInv, Moving
  <2>8. Apart' /\ Counted' /\ OthersUnharmed'
    BY <1>0, <1>1, <1>2, <2>3, <2>4, StillCounted DEF Apart, Creating, Configuring
  <2>9. AtConfiguring' /\ InHand' /\ RetriesDoNotCollide'
    BY <1>0, <1>1, <1>2, <1>3, <2>4 DEF AtConfiguring, InHand, Configuring, RetriesDoNotCollide
  <2> QED
    BY <1>2, <2>6, <2>7, <2>8, <2>9, StillWorking, KeptInv DEF Creating, Final
<1>4. CASE /\ found = <<end, "root temporary">> /\ found \in foreign
           /\ dev[end].at = "node temporary"
  <2>1. found \in Slots
    BY <1>0, <1>4, SlotsOrOurs
  <2>2. /\ dev' = dev
        /\ \/ harmed' = harmed \cup {found} /\ marked' = marked \cup {found}
           \/ harmed' = harmed /\ marked' = marked
    BY <1>2, <2>1, ChangeOther DEF NoEffect
  <2>3. "move answer lost" \in dirty /\ marked' \subseteq harmed'
    BY <1>0, <1>4, <2>2 DEF AtMoving, Counted
  <2>4. AtMoving' /\ AtCleanUp'
    BY <1>0, <1>1, <1>4, <2>2, <2>3, StillMoving
  <2>5. TypeInv' /\ Apart'
    BY <1>0, <1>1, <1>2, <2>2 DEF TypeInv, Moving, Apart
  <2>6. Counted' /\ OthersUnharmed'
    BY <1>0, <1>1, <1>2, <1>4, <2>2, <2>3
       DEF Counted, OthersUnharmed, Creating, Configuring
  <2>7. AtConfiguring' /\ InHand' /\ RetriesDoNotCollide'
    BY <1>0, <1>1, <1>2, <1>4, <2>2
       DEF AtConfiguring, InHand, Configuring, RetriesDoNotCollide
  <2> QED
    BY <1>2, <2>4, <2>5, <2>6, <2>7, StillWorking, KeptInv DEF Creating, Final
<1> QED
  BY <1>0, <1>3, <1>4 DEF Inv, InHand

(* A move without effect: the retry, or the end of the attempt.             *)
LEMMA NotMoved ==
  ASSUME Inv, pc = "move", UNCHANGED <<foreign, marked, found, renamed, moved, end, dirty>>,
         NoEffect,
         \/ pc' = "find" /\ cause' = cause
         \/ pc' = "clean" /\ cause' \in {"expired", "hard"}
         \/ pc' = "clean" /\ cause' = "exists" /\ foreign # {}
  PROVE  Inv'
<1>0. /\ TypeInv /\ Apart /\ AtMoving /\ Counted /\ OthersUnharmed /\ RetriesDoNotCollide
      /\ pc \in Moving /\ end \in Ends /\ UNCHANGED <<dev, harmed>>
  BY DEF Inv, Moving, TypeInv, NoEffect
<1>1. /\ \/ dev[end].at = "root temporary" /\ "move answer lost" \notin dirty
         \/ dev[end].at = "node temporary" /\ "move answer lost" \in dirty
      /\ ~dev[end].disc /\ marked \subseteq harmed
  BY <1>0 DEF AtMoving, Counted
<1>2. AtMoving' /\ AtCleanUp'
  BY <1>0, <1>1, StillMoving
<1>3. TypeInv' /\ Apart'
  BY <1>0 DEF TypeInv, Moving, Apart
<1>4. Counted' /\ OthersUnharmed'
  BY <1>0, StillCounted DEF Creating, Configuring
<1>5. AtConfiguring' /\ InHand' /\ RetriesDoNotCollide'
  BY <1>0 DEF AtConfiguring, InHand, Configuring, RetriesDoNotCollide
<1> QED
  BY <1>2, <1>3, <1>4, <1>5, StillWorking, KeptInv DEF Creating, Final

LEMMA StepMove == Inv /\ Move => Inv'
<1> SUFFICES ASSUME Inv, Move PROVE Inv'
  OBVIOUS
<1>0. /\ TypeInv /\ Apart /\ AtMoving /\ Counted /\ OthersUnharmed /\ RetriesDoNotCollide
      /\ pc = "move" /\ pc \in Moving /\ end \in Ends /\ Ends = {"left", "right"}
      /\ ~dev[end].disc /\ dev \in [Ends -> Devices]
      /\ \/ /\ found = <<end, "ours">> /\ dev[end].at = "root temporary" /\ dev[end].alias
         \/ found \in foreign /\ dev[end].at = "node temporary"
  BY DEF Inv, Move, Moving, TypeInv, InHand, AtMoving, Ends
<1>1. UNCHANGED <<foreign, marked, found, renamed>>
  BY DEF Move
<1>2. Holder(end, "node temporary") = Nothing <=>
        <<end, "node temporary">> \notin foreign /\ dev[end].at # "node temporary"
  BY <1>0 DEF Holder, Nothing
<1>3. ASSUME NoEffect, UNCHANGED <<moved, end, dirty>>,
             \/ Fails("find")
             \/ Holder(end, "node temporary") # Nothing /\ Raise("exists")
      PROVE  Inv'
  <2>1. \/ pc' = "find" /\ cause' = cause
        \/ pc' = "clean" /\ cause' \in {"expired", "hard"}
        \/ pc' = "clean" /\ cause' = "exists" /\ foreign # {}
    BY <1>0, <1>2, <1>3, FailsTo DEF Raise
  <2> QED
    BY <1>0, <1>1, <1>3, <2>1, NotMoved
<1>4. ASSUME Holder(end, "node temporary") = Nothing, Change(found, Moved(found)),
             \/ AfterMove /\ UNCHANGED dirty
             \/ /\ Fails("find") /\ UNCHANGED <<moved, end>>
                /\ dirty' = dirty \cup {"move answer lost"}
      PROVE  Inv'
  <2>0. /\ found = <<end, "ours">> /\ dev[end].at = "root temporary" /\ dev[end].alias
        /\ <<end, "node temporary">> \notin foreign
    BY <1>0, <1>2, <1>4
  <2>1. dev' = [dev EXCEPT ![end] = Moved(found)] /\ harmed' = harmed
    BY <1>0, <1>4, <2>0, ChangeOurs
  <2>2. /\ Moved(found) = [dev[end] EXCEPT !.at = "node temporary"]
        /\ Moved(found).at = "node temporary" /\ Moved(found) \in Devices
        /\ Moved(found).alias /\ ~Moved(found).disc
    BY <1>0, <2>0 DEF Moved, Devices, Places
  <2>3. /\ dev' \in [Ends -> Devices]
        /\ dev'[end].at = "node temporary" /\ dev'[end].alias /\ ~dev'[end].disc
        /\ \A e \in Ends \ {end} : dev'[e] = dev[e]
    BY <1>0, <2>1, <2>2
  <2>4. Apart'
    BY <1>0, <1>1, <2>0, <2>3 DEF Apart
  <2>5. harmed = {} /\ marked' \subseteq harmed' /\ "move answer lost" \notin dirty
    BY <1>0, <1>1, <2>0, <2>1 DEF AtMoving, Counted, OthersUnharmed
  <2>6. CASE /\ Fails("find") /\ UNCHANGED <<moved, end>>
             /\ dirty' = dirty \cup {"move answer lost"}
    <3>1. \/ pc' = "find" /\ cause' = cause
          \/ pc' = "clean" /\ cause' \in {"expired", "hard"}
      BY <2>6, FailsTo
    <3>2. AtMoving' /\ AtCleanUp'
      BY <1>0, <1>1, <2>3, <2>5, <2>6, StillMoving
    <3>3. TypeInv' /\ AtConfiguring' /\ InHand' /\ RetriesDoNotCollide'
      BY <1>0, <1>1, <2>3, <2>6, <3>1
         DEF TypeInv, Moving, AtConfiguring, InHand, Configuring, RetriesDoNotCollide
    <3>4. Counted' /\ OthersUnharmed'
      BY <1>0, <1>1, <2>1, <2>5, <2>6, <3>1, StillCounted DEF Creating, Configuring
    <3> QED
      BY <3>1, <3>2, <3>3, <3>4, <2>4, StillWorking, KeptInv DEF Creating, Final
  <2>7. CASE AfterMove /\ UNCHANGED dirty /\ end = "left"
    <3>1. pc' = "find" /\ end' = "right" /\ moved' = {"left"} /\ cause' = cause
      BY <1>0, <2>7 DEF AfterMove, Other, AtMoving
    <3>2. AtMoving'
      BY <1>0, <1>1, <2>3, <2>5, <2>7, <3>1 DEF AtMoving
    <3>3. TypeInv' /\ AtConfiguring' /\ InHand' /\ RetriesDoNotCollide' /\ AtCleanUp'
      BY <1>0, <1>1, <2>3, <2>7, <3>1
         DEF TypeInv, Moving, AtConfiguring, InHand, Configuring, RetriesDoNotCollide, AtCleanUp
    <3>4. Counted' /\ OthersUnharmed'
      BY <1>0, <1>1, <2>1, <2>5, <2>7, <3>1, StillCounted
    <3> QED
      BY <3>1, <3>2, <3>3, <3>4, <2>4, StillWorking, KeptInv DEF Creating, Final
  <2>8. CASE AfterMove /\ UNCHANGED dirty /\ end = "right"
    <3>1. pc' = "open" /\ end' = "left" /\ moved' = Ends /\ cause' = cause
      BY <1>0, <2>8 DEF AfterMove, Other, AtMoving
    <3>2. AtConfiguring'
      BY <1>0, <1>1, <2>3, <2>8, <3>1 DEF AtMoving, AtConfiguring
    <3>3. TypeInv' /\ AtMoving' /\ InHand' /\ RetriesDoNotCollide' /\ AtCleanUp'
      BY <1>0, <1>1, <2>3, <2>8, <3>1
         DEF TypeInv, AtMoving, Moving, InHand, Configuring, RetriesDoNotCollide, AtCleanUp
    <3>4. Counted' /\ OthersUnharmed'
      BY <1>0, <1>1, <2>1, <2>5, <2>8, <3>1, StillCounted
    <3> QED
      BY <3>1, <3>2, <3>3, <3>4, <2>4, StillWorking, KeptInv DEF Creating, Final
  <2> QED
    BY <1>0, <1>4, <2>6, <2>7, <2>8
<1> QED
  BY <1>3, <1>4 DEF Move

-----------------------------------------------------------------------------
(* The ends are configured.                                                 *)

(* A step that has only looked: it stays in the stage or gives up.          *)
LEMMA OnlyLooked ==
  ASSUME Inv, pc \in Configuring,
         UNCHANGED <<end, dev, foreign, harmed, marked, moved, dirty>>,
         renamed' = renamed \/ (renamed' = renamed \cup {end} /\ dev[end].at = "node final"),
         pc' \in Configuring \cup {"clean"}, InHand',
         cause' = "exists" => cause = "exists" \/ foreign # {} \/ "tc answer lost" \in dirty
  PROVE  Inv'
<1>0. /\ TypeInv /\ Apart /\ AtConfiguring /\ Counted /\ OthersUnharmed
      /\ RetriesDoNotCollide /\ end \in Ends
  BY DEF Inv, TypeInv
<1>1. AtConfiguring' /\ AtCleanUp'
  <2>1. /\ dev[end].at \in {"node temporary", "node final"} /\ dev[end].alias
        /\ end \in renamed => dev[end].at = "node final"
        /\ dev[end].disc => "tc answer lost" \in dirty
    BY <1>0 DEF AtConfiguring
  <2> QED
    BY <1>0, <2>1, StillConfiguring
<1>2. TypeInv'
  BY <1>0 DEF TypeInv, Configuring
<1>3. Apart' /\ Counted' /\ OthersUnharmed' /\ RetriesDoNotCollide'
  BY <1>0 DEF Apart, Counted, OthersUnharmed, RetriesDoNotCollide
<1>4. AtMoving'
  BY DEF AtMoving, Moving, Configuring
<1> QED
  BY <1>1, <1>2, <1>3, <1>4, StillWorking, KeptInv DEF Creating, Final, Configuring

LEMMA StepOpen == Inv /\ Open => Inv'
<1> SUFFICES ASSUME Inv, Open PROVE Inv'
  OBVIOUS
<1>0. /\ Apart /\ AtConfiguring /\ pc = "open" /\ pc \in Configuring /\ end \in Ends
      /\ foreign \subseteq Slots
  BY DEF Inv, Open, Configuring, TypeInv
<1>1. UNCHANGED <<end, dev, foreign, harmed, marked, moved, renamed, dirty>>
  BY DEF Open
<1>2. /\ dev[end].at \in {"node temporary", "node final"}
      /\ end \in renamed => dev[end].at = "node final"
  BY <1>0 DEF AtConfiguring
<1> DEFINE place == IF end \in renamed THEN "node final" ELSE "node temporary"
<1>3. PICK x \in Lookups(end, place) :
        /\ found' = x
        /\ \/ Fails("open")
           \/ x # Nothing /\ Step(IF end \in renamed THEN "mtu" ELSE "rename")
           \/ x = Nothing /\ (IF end \in renamed THEN Retry("open") ELSE Step("adopt"))
  BY DEF Open
<1>4. \/ pc' \in {"open", "adopt"} /\ cause' = cause
      \/ pc' = "clean" /\ cause' \in {"expired", "hard"}
      \/ pc' = "mtu" /\ cause' = cause /\ end \in renamed /\ x # Nothing
      \/ pc' = "rename" /\ cause' = cause /\ end \notin renamed /\ x # Nothing
  BY <1>3, FailsTo, RetryTo DEF Step
<1>5. x # Nothing => \/ x = <<end, place>> /\ x \in foreign /\ dev[end].at # place
                     \/ x = <<end, "ours">> /\ dev[end].at = place
  BY <1>0, <1>3 DEF Lookups, Holder, Apart
<1>6. InHand'
  BY <1>0, <1>1, <1>2, <1>3, <1>4, <1>5 DEF InHand
<1> QED
  BY <1>0, <1>1, <1>4, <1>6, OnlyLooked DEF Configuring

LEMMA StepAdopt == Inv /\ Adopt => Inv'
<1> SUFFICES ASSUME Inv, Adopt PROVE Inv'
  OBVIOUS
<1>0. /\ pc = "adopt" /\ pc \in Configuring /\ end \in Ends /\ foreign \subseteq Slots
      /\ marked = {}
  BY Untouched DEF Inv, Adopt, Configuring, TypeInv
<1>1. UNCHANGED <<end, dev, foreign, harmed, marked, moved, dirty>>
  BY DEF Adopt
<1>2. PICK x \in Lookups(end, "node final") :
       \/ /\ IsOurs(x)
          /\ found' = x /\ renamed' = renamed \cup {end} /\ Step("mtu")
       \/ ~IsOurs(x) /\ Retry("open") /\ UNCHANGED <<found, renamed>>
       \/ Fails("open") /\ UNCHANGED <<found, renamed>>
  BY DEF Adopt
<1>3. CASE IsOurs(x) /\ found' = x /\ renamed' = renamed \cup {end} /\ Step("mtu")
  <2>1. x = <<end, "ours">> /\ dev[end].at = "node final"
    <3>1. x \in Ours
      BY <1>0, <1>3 DEF IsOurs, HasToken
    <3>2. x[2] = "ours"
      BY <3>1 DEF Ours
    <3>3. Nothing[2] = "nothing" /\ <<end, "node final">>[2] = "node final"
      BY DEF Nothing
    <3> QED
      BY <1>2, <3>2, <3>3 DEF Lookups, Holder
  <2>2. InHand'
    BY <1>0, <1>1, <1>3, <2>1 DEF InHand, Step
  <2> QED
    BY <1>0, <1>1, <1>3, <2>1, <2>2, OnlyLooked DEF Configuring, Step
<1>4. CASE UNCHANGED <<found, renamed>> /\ (Retry("open") \/ Fails("open"))
  <2>1. \/ pc' = "open" /\ cause' = cause
        \/ pc' = "clean" /\ cause' \in {"expired", "hard"}
    BY <1>4, FailsTo, RetryTo
  <2>2. InHand'
    BY <2>1 DEF InHand
  <2> QED
    BY <1>0, <1>1, <1>4, <2>1, <2>2, OnlyLooked DEF Configuring
<1> QED
  BY <1>2, <1>3, <1>4

(* A step that changes our end under one of its two names, and goes on in   *)
(* the stage or gives up.                                                   *)
LEMMA OursChanged ==
  ASSUME Inv, pc \in Configuring, UNCHANGED <<end, foreign, marked, moved>>,
         harmed' = harmed, dirty' \in {dirty, dirty \cup {"tc answer lost"}},
         renamed' = renamed \/ renamed' = renamed \cup {end},
         NEW d, dev' = [dev EXCEPT ![end] = d], d \in Devices,
         d.at \in {"node temporary", "node final"}, <<end, d.at>> \notin foreign, d.alias,
         end \in renamed' => d.at = "node final", d.disc => "tc answer lost" \in dirty',
         pc' \in Configuring \cup {"clean"}, InHand',
         cause' = cause \/ cause' \in {"expired", "hard"}
  PROVE  Inv'
<1>0. /\ TypeInv /\ Apart /\ AtConfiguring /\ Counted /\ OthersUnharmed
      /\ RetriesDoNotCollide /\ end \in Ends /\ dev \in [Ends -> Devices]
  BY DEF Inv, TypeInv
<1>1. dev'[end] = d /\ \A e \in Ends \ {end} : dev'[e] = dev[e]
  BY <1>0
<1>2. AtConfiguring' /\ AtCleanUp'
  BY <1>0, <1>1, StillConfiguring
<1>3. TypeInv'
  BY <1>0 DEF TypeInv, Configuring
<1>4. Apart' /\ RetriesDoNotCollide'
  BY <1>0, <1>1 DEF Apart, RetriesDoNotCollide
<1>6. Counted' /\ OthersUnharmed'
  BY <1>0 DEF Counted, OthersUnharmed
<1>5. AtMoving'
  BY DEF AtMoving, Moving, Configuring
<1> QED
  BY <1>2, <1>3, <1>4, <1>5, <1>6, StillWorking, KeptInv DEF Creating, Final, Configuring

LEMMA StepRename == Inv /\ Rename => Inv'
<1> SUFFICES ASSUME Inv, Rename PROVE Inv'
  OBVIOUS
<1>0. /\ TypeInv /\ Apart /\ AtConfiguring /\ InHand
      /\ pc = "rename" /\ pc \in Configuring /\ end \in Ends /\ dev \in [Ends -> Devices]
      /\ foreign \subseteq Slots /\ dev[end].alias
      /\ dev[end].disc => "tc answer lost" \in dirty
  BY DEF Inv, Rename, Configuring, TypeInv, AtConfiguring
<1>1. UNCHANGED <<end, foreign, marked, found, moved, dirty>>
  BY DEF Rename
<1>2. \/ found = <<end, "ours">> /\ dev[end].at = "node temporary"
      \/ found \in foreign /\ dev[end].at = "node final"
  BY <1>0 DEF InHand
<1>3. Holder(end, "node final") = Nothing <=>
        <<end, "node final">> \notin foreign /\ dev[end].at # "node final"
  BY <1>0 DEF Holder, Nothing
<1>4. ASSUME Holder(end, "node final") = Nothing, Change(found, Renamed(found)),
             \/ Step("mtu") /\ renamed' = renamed \cup {end}
             \/ Fails("open") /\ UNCHANGED renamed
      PROVE  Inv'
  <2>1. found = <<end, "ours">> /\ <<end, "node final">> \notin foreign
    BY <1>2, <1>3, <1>4
  <2>2. dev' = [dev EXCEPT ![end] = Renamed(found)] /\ harmed' = harmed
    BY <1>0, <1>4, <2>1, ChangeOurs
  <2>3. /\ Renamed(found) = [dev[end] EXCEPT !.at = "node final"]
        /\ Renamed(found) \in Devices /\ Renamed(found).at = "node final"
        /\ Renamed(found).alias /\ Renamed(found).disc = dev[end].disc
    BY <1>0, <2>1 DEF Renamed, Devices, Places
  <2>4. /\ pc' \in {"mtu", "open", "clean"} /\ (pc' = "mtu" => end \in renamed')
        /\ renamed' = renamed \/ renamed' = renamed \cup {end}
        /\ cause' = cause \/ cause' \in {"expired", "hard"}
    BY <1>4, FailsTo DEF Step
  <2>5. InHand'
    BY <1>1, <2>1, <2>4 DEF InHand
  <2> QED
    BY <1>0, <1>1, <2>1, <2>2, <2>3, <2>4, <2>5, OursChanged DEF Configuring
<1>5. CASE NoEffect /\ Fails("open") /\ UNCHANGED renamed
  <2>1. \/ pc' = "open" /\ cause' = cause
        \/ pc' = "clean" /\ cause' \in {"expired", "hard"}
    BY <1>5, FailsTo
  <2>2. InHand'
    BY <2>1 DEF InHand
  <2> QED
    BY <1>0, <1>1, <1>5, <2>1, <2>2, OnlyLooked DEF Configuring, NoEffect
<1>6. CASE Holder(end, "node final") # Nothing /\ NoEffect /\ Raise("exists") /\ UNCHANGED renamed
  <2>1. foreign # {}
    BY <1>2, <1>3, <1>6
  <2>2. InHand'
    BY <1>6 DEF InHand, Raise
  <2> QED
    BY <1>0, <1>1, <1>6, <2>1, <2>2, OnlyLooked DEF Configuring, NoEffect, Raise
<1> QED
  BY <1>4, <1>5, <1>6 DEF Rename

LEMMA StepSetting == Inv /\ (SetMtu \/ SetUp) => Inv'
<1>1. ASSUME Inv, pc \in {"mtu", "up"}, NEW label, NEW d,
             \/ Change(found, d) /\ (Step(label) \/ Fails("open"))
             \/ NoEffect /\ Fails("open"),
             UNCHANGED <<end, foreign, marked, found, moved, renamed, dirty>>,
             pc = "mtu" => label = "up" /\ d = [dev[end] EXCEPT !.mtu = TRUE],
             pc = "up" => label = "qdisc" /\ d = [dev[end] EXCEPT !.up = TRUE]
      PROVE  Inv'
  <2>0. /\ TypeInv /\ Apart /\ AtConfiguring /\ InHand
        /\ pc \in Configuring /\ end \in Ends /\ dev[end] \in Devices
        /\ found = <<end, "ours">> /\ end \in renamed /\ dev[end].at = "node final"
        /\ dev[end].alias
        /\ dev[end].disc => "tc answer lost" \in dirty
        /\ pc = "up" => dev[end].mtu
    BY <1>1 DEF Inv, Configuring, TypeInv, AtConfiguring, InHand
  <2>1. UNCHANGED <<end, foreign, marked, found, moved, renamed, dirty>>
    BY <1>1
  <2>2. CASE Change(found, d) /\ (Step(label) \/ Fails("open"))
    <3>1. dev' = [dev EXCEPT ![end] = d] /\ harmed' = harmed
      BY <2>0, <2>2, ChangeOurs
    <3>2. /\ d \in Devices /\ d.at = dev[end].at /\ d.alias = dev[end].alias
          /\ d.disc = dev[end].disc
          /\ pc = "mtu" => d.mtu
          /\ pc = "up" => d.mtu /\ d.up
      BY <1>1, <2>0 DEF Devices
    <3>3. \/ pc' \in {label, "open"} /\ cause' = cause
          \/ pc' = "clean" /\ cause' \in {"expired", "hard"}
      BY <2>2, FailsTo DEF Step
    <3>4. dev'[end] = d
      BY <2>0, <3>1 DEF TypeInv
    <3>5. InHand'
      BY <1>1, <2>0, <2>1, <3>2, <3>3, <3>4 DEF InHand
    <3>6. pc' \in Configuring \cup {"clean"} /\ <<end, d.at>> \notin foreign
      BY <1>1, <2>0, <3>2, <3>3 DEF Configuring, Apart
    <3> QED
      BY <1>1, <2>0, <2>1, <3>1, <3>2, <3>3, <3>5, <3>6, OursChanged
  <2>3. CASE NoEffect /\ Fails("open")
    <3>1. \/ pc' = "open" /\ cause' = cause
          \/ pc' = "clean" /\ cause' \in {"expired", "hard"}
      BY <2>3, FailsTo
    <3>2. InHand'
      BY <3>1 DEF InHand
    <3> QED
      BY <1>1, <2>0, <2>1, <2>3, <3>1, <3>2, OnlyLooked DEF Configuring, NoEffect
  <2> QED
    BY <1>1, <2>2, <2>3
<1>2. ASSUME Inv, SetMtu PROVE Inv'
  <2> DEFINE d == [dev[end] EXCEPT !.mtu = TRUE]
  <2>1. pc = "mtu" /\ Setting("up", d)
    BY <1>2 DEF SetMtu
  <2>2. d = [dev[end] EXCEPT !.mtu = TRUE]
    OBVIOUS
  <2>3. /\ \/ Change(found, d) /\ (Step("up") \/ Fails("open"))
           \/ NoEffect /\ Fails("open")
        /\ UNCHANGED <<end, foreign, marked, found, moved, renamed, dirty>>
    BY <2>1 DEF Setting
  <2> HIDE DEF d
  <2> QED
    BY <1>1, <1>2, <2>1, <2>2, <2>3
<1>3. ASSUME Inv, SetUp PROVE Inv'
  <2> DEFINE d == [dev[end] EXCEPT !.up = TRUE]
  <2>1. pc = "up" /\ Setting("qdisc", d)
    BY <1>3 DEF SetUp
  <2>2. d = [dev[end] EXCEPT !.up = TRUE]
    OBVIOUS
  <2>3. /\ \/ Change(found, d) /\ (Step("qdisc") \/ Fails("open"))
           \/ NoEffect /\ Fails("open")
        /\ UNCHANGED <<end, foreign, marked, found, moved, renamed, dirty>>
    BY <2>1 DEF Setting
  <2> HIDE DEF d
  <2> QED
    BY <1>1, <1>3, <2>1, <2>2, <2>3
<1> QED
  BY <1>2, <1>3

LEMMA StepAddQdisc == Inv /\ AddQdisc => Inv'
<1> SUFFICES ASSUME Inv, AddQdisc PROVE Inv'
  OBVIOUS
<1>0. /\ TypeInv /\ Apart /\ AtConfiguring /\ Counted /\ OthersUnharmed
      /\ RetriesDoNotCollide /\ pc = "qdisc" /\ pc \in Configuring /\ end \in Ends /\ Ends = {"left", "right"}
      /\ dev \in [Ends -> Devices] /\ dev[end] \in Devices
      /\ found = <<end, "ours">>
      /\ dev[end].disc => "tc answer lost" \in dirty
      /\ Configured(end)
  BY DEF Inv, AddQdisc, Configuring, TypeInv, AtConfiguring, InHand, Configured, Ends
<1>1. UNCHANGED <<foreign, marked, found, moved, renamed>>
  BY DEF AddQdisc
<1> DEFINE with == [dev[end] EXCEPT !.disc = TRUE]
<1>2. /\ with \in Devices /\ with.at = "node final" /\ with.alias /\ with.mtu /\ with.up
      /\ with.disc
  BY <1>0 DEF Devices, Configured
<1>3. Change(found, with) => /\ dev' = [dev EXCEPT ![end] = with] /\ harmed' = harmed
                             /\ dev'[end] = with
  BY <1>0, ChangeOurs
<1>4. ASSUME AfterQdisc, UNCHANGED dirty, Change(found, with) \/ NoEffect
      PROVE  Inv'
  <2>1. /\ harmed' = harmed /\ dev' \in [Ends -> Devices]
        /\ \A e \in Ends \ {end} : dev'[e] = dev[e]
        /\ \A e \in Ends : dev'[e].at = dev[e].at
    <3>1. CASE NoEffect
      BY <1>0, <3>1 DEF NoEffect
    <3>2. CASE Change(found, with)
      BY <1>0, <1>2, <1>3, <3>2 DEF Configured
    <3> QED
      BY <1>4, <3>1, <3>2
  <2>2. /\ dev'[end].at = "node final" /\ dev'[end].alias /\ dev'[end].mtu /\ dev'[end].up
        /\ end \in renamed
    BY <1>0, <1>2, <1>3, <1>4 DEF NoEffect, Configured
  <2>3. Apart' /\ Counted' /\ OthersUnharmed'
    <3>1. harmed = {} /\ "move answer lost" \notin dirty
      BY <1>0, Untouched
    <3> QED
      BY <1>0, <1>1, <1>4, <2>1, <3>1, StillCounted DEF Apart
  <2>4. CASE end = "left"
    <3>1. pc' = "open" /\ end' = "right" /\ cause' = cause
      BY <1>4, <2>4 DEF AfterQdisc
    <3>2. dev["right"].at = "node temporary" /\ ~dev["right"].disc /\ dev["right"].alias
          /\ "right" \notin renamed /\ moved = Ends /\ dev'["right"] = dev["right"]
      BY <1>0, <2>1, <2>4 DEF AtConfiguring
    <3>3. Configured("left")'
      BY <1>1, <2>2, <2>4 DEF Configured
    <3>4. AtConfiguring'
      BY <1>0, <1>1, <2>2, <2>4, <3>1, <3>2, <3>3 DEF AtConfiguring, TypeInv
    <3>5. TypeInv' /\ AtMoving' /\ InHand' /\ AtCleanUp' /\ RetriesDoNotCollide'
      BY <1>0, <1>1, <1>4, <2>1, <3>1
         DEF TypeInv, Configuring, AtMoving, Moving, InHand, AtCleanUp, RetriesDoNotCollide
    <3> QED
      BY <2>3, <3>1, <3>4, <3>5, StillWorking, KeptInv DEF Creating, Final
  <2>5. CASE end = "right"
    <3>1. pc' = "done" /\ end' = end /\ cause' = cause
      BY <1>4, <2>5 DEF AfterQdisc, Step
    <3>2. Configured("left") /\ dev'["left"] = dev["left"]
      BY <1>0, <2>1, <2>5 DEF AtConfiguring
    <3>3. ReturnsConfigured'
      BY <1>0, <2>2, <2>5, <3>2 DEF ReturnsConfigured, Configured
    <3>4. TypeInv' /\ AtMoving' /\ InHand' /\ AtCleanUp' /\ RetriesDoNotCollide'
      BY <1>0, <1>1, <1>4, <2>1, <3>1
         DEF TypeInv, Final, AtMoving, Moving, InHand, AtCleanUp, RetriesDoNotCollide
    <3>5. AtCreation' /\ AtConfiguring' /\ LeftoverIsVisible'
      BY <3>1 DEF AtCreation, Creating, AtConfiguring, Configuring, LeftoverIsVisible
    <3> QED
      BY <2>3, <3>3, <3>4, <3>5, KeptInv
  <2> QED
    BY <1>0, <2>4, <2>5
<1>5. ASSUME Change(found, with), Fails("open"), UNCHANGED end,
             dirty' = dirty \cup {"tc answer lost"}
      PROVE  Inv'
  <2>1. \/ pc' = "open" /\ cause' = cause
        \/ pc' = "clean" /\ cause' \in {"expired", "hard"}
    BY <1>5, FailsTo
  <2>2. InHand' /\ pc' \in Configuring \cup {"clean"}
    BY <2>1 DEF InHand, Configuring
  <2>3. <<end, with.at>> \notin foreign
    BY <1>0, <1>2 DEF Apart, Configured
  <2> QED
    BY <1>0, <1>1, <1>2, <1>3, <1>5, <2>1, <2>2, <2>3, OursChanged
<1>6. ASSUME NoEffect, UNCHANGED <<end, dirty>>,
             Fails("open") \/ (dev[end].disc /\ Raise("exists"))
      PROVE  Inv'
  <2>1. /\ pc' \in {"open", "clean"}
        /\ cause' = "exists" => cause = "exists" \/ "tc answer lost" \in dirty
    BY <1>0, <1>6, FailsTo DEF Raise
  <2>2. InHand' /\ pc' \in Configuring \cup {"clean"}
    BY <2>1 DEF InHand, Configuring
  <2> QED
    BY <1>0, <1>1, <1>6, <2>1, <2>2, OnlyLooked DEF NoEffect
<1> QED
  BY <1>4, <1>5, <1>6 DEF AddQdisc

-----------------------------------------------------------------------------
(* The clean-up, and the others.                                            *)

(* What has our token is ours, or counted already.                          *)
LEMMA TokenCounted ==
  ASSUME Counted, NEW es \in SUBSET WithToken
  PROVE  Guessed(es) \cap Slots \subseteq harmed
<1>1. ASSUME NEW x \in Guessed(es) \cap Slots PROVE x \in harmed
  <2>1. HasToken(x)
    BY <1>1 DEF Guessed, WithToken
  <2>2. x \notin Ours
    BY <1>1 DEF Slots, Ours
  <2> QED
    BY <2>1, <2>2 DEF HasToken, Counted
<1> QED
  BY <1>1

(* An end that can be reached is among those deleted first.                 *)
LEMMA ReachableDeleted ==
  ASSUME Apart, Counted, OthersUnharmed, NEW e \in Ends, Reachable(e)
  PROVE  Guessed(FirstOnes) \cap Ours # {}
<1>1. Holder(e, Guess(e)) = <<e, "ours">> /\ <<e, "ours">> \in Ours
  BY SlotsOrOurs DEF Holder, Reachable, Apart
<1>2. e \in WithToken
  BY <1>1 DEF WithToken, HasToken, Reachable
<1>3. CASE e \in FirstOnes
  BY <1>1, <1>3 DEF Guessed
<1>4. CASE e \notin FirstOnes
  <2>1. /\ e = "right" /\ Guess("right") = "root temporary" /\ Guess("left") = "root temporary"
        /\ "left" \in WithToken /\ FirstOnes = {"left"}
    BY <1>2, <1>4 DEF FirstOnes, Ends
  <2>2. Holder("left", "root temporary") \in {<<"left", "root temporary">>, <<"left", "ours">>, Nothing}
    BY DEF Holder
  <2>3. HasToken(Holder("left", "root temporary"))
    BY <2>1 DEF WithToken
  <2>4. Holder("left", "root temporary") # <<"left", "root temporary">>
    <3>1. <<"left", "root temporary">> \notin marked
      BY <2>1 DEF Reachable, Before
    <3>2. <<"left", "root temporary">> \notin Ours
      BY SlotsOrOurs DEF Ends
    <3> QED
      BY <2>3, <3>1, <3>2 DEF HasToken
  <2>5. Nothing \notin Ours /\ Nothing \notin marked
    BY DEF Nothing, Ours, Counted, OthersUnharmed
  <2>6. Holder("left", "root temporary") = <<"left", "ours">>
    BY <2>2, <2>3, <2>4, <2>5 DEF HasToken
  <2> QED
    BY <2>1, <2>6, SlotsOrOurs DEF Guessed, Ends
<1> QED
  BY <1>3, <1>4

LEMMA StepCleanUp == Inv /\ CleanUp => Inv'
<1> SUFFICES ASSUME Inv, CleanUp PROVE Inv'
  OBVIOUS
<1>0. /\ TypeInv /\ Apart /\ AtCleanUp /\ Counted /\ OthersUnharmed /\ RetriesDoNotCollide
      /\ pc = "clean" /\ foreign \subseteq Slots
  BY DEF Inv, CleanUp, TypeInv
<1>1. /\ pc' = "failed" /\ cause' = cause
      /\ UNCHANGED <<end, foreign, marked, found, moved, renamed>>
      /\ dirty' = dirty \/ dirty' = dirty \cup {"cleanup fault"}
  BY DEF CleanUp, Step
<1>2. PICK es \in SUBSET WithToken :
        /\ Delete(Guessed(es))
        /\ "cleanup fault" \notin dirty' => es = FirstOnes
  <2>1. FirstOnes \in SUBSET WithToken
    BY DEF FirstOnes, Ends
  <2>2. CASE Delete(Guessed(FirstOnes))
    BY <2>1, <2>2
  <2>3. CASE /\ dirty' = dirty \cup {"cleanup fault"}
             /\ \E es \in SUBSET WithToken : Delete(Guessed(es))
    <3>1. "cleanup fault" \in dirty'
      BY <2>3
    <3> QED
      BY <2>3, <3>1
  <2> QED
    BY <2>2, <2>3 DEF CleanUp
<1>3. /\ harmed' = harmed
      /\ dev' = IF Guessed(es) \cap Ours = {} THEN dev ELSE [e \in Ends |-> Absent]
  BY <1>0, <1>2, TokenCounted DEF Delete
<1>4. Absent \in Devices /\ Absent.at = "nowhere" /\ \A e \in Ends : <<e, "nowhere">> \notin Slots
  BY DEF Absent, Devices, Slots
<1>5. TypeInv' /\ Apart'
  BY <1>0, <1>1, <1>3, <1>4 DEF TypeInv, Apart, Final
<1>6. AtCreation' /\ AtMoving' /\ AtConfiguring' /\ InHand' /\ AtCleanUp' /\ ReturnsConfigured'
  BY <1>1 DEF AtCreation, AtMoving, AtConfiguring, InHand, AtCleanUp, ReturnsConfigured,
              Creating, Moving, Configuring
<1>7. RetriesDoNotCollide'
  BY <1>0, <1>1 DEF RetriesDoNotCollide
<1>8. Counted' /\ OthersUnharmed'
  BY <1>0, <1>1, <1>3, StillCounted DEF Creating, Configuring
<1>9. LeftoverIsVisible'
  <2>1. CASE Guessed(es) \cap Ours # {}
    BY <1>3, <1>4, <2>1 DEF LeftoverIsVisible, Gone
  <2>2. CASE "cleanup fault" \in dirty'
    BY <2>2 DEF LeftoverIsVisible
  <2>3. CASE Guessed(es) \cap Ours = {} /\ es = FirstOnes
    <3>1. Gone \/ Stray
      BY <1>0, <2>3, ReachableDeleted DEF AtCleanUp
    <3> QED
      BY <1>1, <1>3, <2>3, <3>1 DEF LeftoverIsVisible, Gone, Stray
  <2> QED
    BY <1>2, <2>1, <2>2, <2>3
<1> QED
  BY <1>5, <1>6, <1>7, <1>8, <1>9, KeptInv

LEMMA SlotIsPair ==
  ASSUME NEW s \in Slots
  PROVE  \E e \in Ends, place \in Places : s = <<e, place>>
<1>1. s \in Ends \X Places
  BY DEF Slots, Places
<1> QED
  BY <1>1

LEMMA StepOccupy == Inv /\ Occupy => Inv'
<1> SUFFICES ASSUME Inv, NEW s \in Slots \ foreign,
                    dev[s[1]].at # s[2], pc \notin Final, foreign' = foreign \cup {s},
                    UNCHANGED <<pc, end, dev, harmed, marked, found, moved, renamed, left, cause, dirty>>
             PROVE  Inv'
  BY DEF Occupy
<1>0. /\ TypeInv /\ Apart /\ AtCreation /\ AtMoving /\ AtConfiguring /\ InHand /\ AtCleanUp
      /\ Counted /\ OthersUnharmed /\ ReturnsConfigured /\ RetriesDoNotCollide
      /\ LeftoverIsVisible
  BY DEF Inv
<1>1. TypeInv' /\ Counted' /\ OthersUnharmed' /\ ReturnsConfigured' /\ LeftoverIsVisible'
  BY <1>0 DEF TypeInv, Counted, OthersUnharmed, ReturnsConfigured, LeftoverIsVisible, Gone, Stray
<1>2. PICK e1 \in Ends, place \in Places : s = <<e1, place>>
  BY SlotIsPair
<1>6. Apart'
  BY <1>0, <1>2 DEF Apart
<1>3. AtCreation' /\ AtConfiguring' /\ InHand'
  BY <1>0 DEF AtCreation, AtConfiguring, InHand, Configured
<1>4. AtMoving'
  BY <1>0 DEF AtMoving
<1>5. AtCleanUp' /\ RetriesDoNotCollide'
  BY <1>0 DEF AtCleanUp, Gone, Stray, Reachable, Before, Guess, RetriesDoNotCollide
<1> QED
  BY <1>1, <1>3, <1>4, <1>5, <1>6, KeptInv

LEMMA StepStutter == Inv /\ UNCHANGED vars => Inv'
<1> SUFFICES ASSUME Inv, UNCHANGED vars PROVE Inv'
  OBVIOUS
<1> USE DEF Inv, vars
<1>1. TypeInv' /\ Apart' /\ AtCreation'
  BY DEF TypeInv, Apart, AtCreation
<1>2. AtMoving'
  BY DEF AtMoving
<1>3. AtConfiguring'
  BY DEF AtConfiguring, Configured
<1>4. InHand'
  BY DEF InHand
<1>5. AtCleanUp'
  BY DEF AtCleanUp, Gone, Stray, Reachable, Before, Guess
<1>6. Counted' /\ OthersUnharmed' /\ ReturnsConfigured' /\ RetriesDoNotCollide'
  BY DEF Counted, OthersUnharmed, ReturnsConfigured, RetriesDoNotCollide
<1>7. LeftoverIsVisible'
  BY DEF LeftoverIsVisible, Gone, Stray
<1> QED
  BY <1>1, <1>2, <1>3, <1>4, <1>5, <1>6, <1>7

LEMMA Invariance == Spec => []Inv
<1>1. Inv /\ [Next]_vars => Inv'
  BY StepLookup, StepAddPair, StepFind, StepOwn, StepMove, StepOpen, StepAdopt, StepRename,
     StepSetting, StepAddQdisc, StepCleanUp, StepOccupy, StepStutter DEF Next, Call
<1> QED
  BY InitInv, <1>1, PTL DEF Spec

-----------------------------------------------------------------------------
(* create_veth never changes, moves, renames or deletes a device it did not *)
(* make, whatever names others take and whichever answers are lost, but the *)
(* one that takes the root name an end left by an unanswered move.          *)
THEOREM OthersAreSafe == Spec => []OthersUnharmed
<1>1. Inv => OthersUnharmed
  BY DEF Inv
<1> QED
  BY Invariance, <1>1, PTL

(* What create_veth returns is in place, marked, up and has its MTU.        *)
THEOREM WhatReturnsIsConfigured == Spec => []ReturnsConfigured
<1>1. Inv => ReturnsConfigured
  BY DEF Inv
<1> QED
  BY Invariance, <1>1, PTL

(* EEXIST is about somebody else's device, unless an answer to "tc add" was *)
(* lost.                                                                    *)
THEOREM NoRetryCollides == Spec => []RetriesDoNotCollide
<1>1. Inv => RetriesDoNotCollide
  BY DEF Inv
<1> QED
  BY Invariance, <1>1, PTL

(* An undisturbed clean-up leaves nothing, or one end where the inventory   *)
(* looks for it; and that only if the kernel dropped an alias or another    *)
(* device was given our token.                                              *)
THEOREM LeftoversAreVisible == Spec => []LeftoverIsVisible
<1>1. Inv => LeftoverIsVisible
  BY DEF Inv
<1> QED
  BY Invariance, <1>1, PTL
=============================================================================
