----------------------------- MODULE VethCreate -----------------------------
(***************************************************************************)
(* Pyroute2Backend.create_veth: one veth pair is made in the root          *)
(* namespace under temporary names, its ends are marked with an ownership  *)
(* token and moved to their namespaces, then found again there, renamed    *)
(* and configured.  Netlink answers may be lost after their effect, links  *)
(* may take a while to become visible, and interrupts may arrive at every  *)
(* call; "transient" answers are retried up to a deadline per endpoint.    *)
(*                                                                         *)
(* The kernel (link table, alias at creation, name collisions) is the      *)
(* environment.  An answer is a pair of an effect and a report.  Others    *)
(* may take any free name at any time; they do not touch our two ends.     *)
(***************************************************************************)
EXTENDS Integers

CONSTANTS Patience       \* a deadline, in retry intervals

ASSUME PatienceAssumption == Patience \in Nat

Ends  == {"left", "right"}
Other(e) == IF e = "left" THEN "right" ELSE "left"
Slots == Ends \X {"root temporary", "node temporary", "node final"}
Ours  == Ends \X {"ours"}

VARIABLES
  pc, end,               \* the step, and the endpoint it is about
  dev,                   \* the pair: place, alias and settings of each end
  foreign,               \* slots (name in a place) that other devices occupy
  harmed,                \* those that nslab changed or deleted
  marked,                \* those that nslab wrote its token on
  found,                 \* the device of the index in hand: ours, or a slot's
  moved, renamed,        \* moved_endpoints, renamed_endpoints
  left,                  \* retries to the deadline
  cause,                 \* what ended the attempt: none, exists, expired, hard
  dirty                  \* faults the later judgement depends on: alias lost,
                         \* move answer lost, tc answer lost, cleanup fault

vars == <<pc, end, dev, foreign, harmed, marked, found, moved, renamed, left, cause, dirty>>

Nothing == <<"left", "nothing">>
Absent  == [at |-> "nowhere", alias |-> FALSE, mtu |-> FALSE, up |-> FALSE, disc |-> FALSE]
Fresh(aliased) == [Absent EXCEPT !.at = "root temporary", !.alias = aliased]

Working == {"lookup", "add", "find", "own", "move", "open", "adopt",
            "rename", "mtu", "up", "qdisc"}
Final   == {"done", "failed"}

-----------------------------------------------------------------------------
(* The kernel.                                                              *)

Holder(e, place) == IF <<e, place>> \in foreign THEN <<e, place>>
                    ELSE IF dev[e].at = place THEN <<e, "ours">> ELSE Nothing

(* link_lookup: a present device may not be visible yet.                    *)
Lookups(e, place) == {Nothing, Holder(e, place)}

(* Whatever changes an index in hand changes our end, or harms another's.   *)
Change(x, next) ==
  /\ dev' = IF x \in Ours THEN [dev EXCEPT ![x[1]] = next] ELSE dev
  /\ harmed' = harmed \cup ({x} \cap Slots)
NoEffect == UNCHANGED <<dev, harmed>>

(* Our ownership token is the alias of a device.                            *)
HasToken(x) == x \in marked \/ (x \in Ours /\ dev[x[1]].alias)

(* Others take names that are free, those an end of ours has left as well.  *)
Occupy ==
  \E s \in Slots \ foreign :
     /\ dev[s[1]].at # s[2]
     /\ pc \notin Final
     /\ foreign' = foreign \cup {s}
     /\ UNCHANGED <<pc, end, dev, harmed, marked, found, moved, renamed, left, cause, dirty>>

-----------------------------------------------------------------------------
(* Exceptions and retries.                                                  *)

Step(label) == pc' = label /\ UNCHANGED <<cause, left>>

(* The outer except: cleanup, if the pair is ours to remove.                *)
Raise(why) == pc' = "clean" /\ cause' = why /\ UNCHANGED left
Refuse(why) == pc' = "failed" /\ cause' = why /\ UNCHANGED left

(* _is_transient_veth_error: sleep and try again, unless the deadline is    *)
(* over.  A sleep may take longer than asked.                               *)
(* RetryForever: each try sets the deadline anew.                           *)
RetryForever(label) == pc' = label /\ left' = Patience /\ UNCHANGED cause
Retry(label) ==
  \/ left = 0 /\ Raise("expired")
  \/ \E n \in 0..Patience : n < left /\ pc' = label /\ left' = n /\ UNCHANGED cause

(* The report of a call that is not a success, with or without its effect:  *)
(* a transient error, or another error or an interrupt.                     *)
Fails(label) == Retry(label) \/ Raise("hard")

-----------------------------------------------------------------------------
(* Creation in the root namespace.                                          *)

Lookup ==
  /\ pc = "lookup"
  /\ \/ /\ \E e \in Ends : <<e, "root temporary">> \in foreign
        /\ Refuse("exists")
     \/ /\ \A e \in Ends : <<e, "root temporary">> \notin foreign
        /\ Step("add")
     \/ Refuse("hard")
  /\ UNCHANGED <<end, dev, foreign, harmed, marked, found, moved, renamed, dirty>>

(* link add: a kernel may ignore the alias of a new device.  With EEXIST    *)
(* the names are somebody else's.                                           *)
MakePair(a) == dev' = [e \in Ends |-> Fresh(a[e])] /\ UNCHANGED harmed
AddPair ==
  /\ pc = "add"
  /\ \/ /\ \E e \in Ends : <<e, "root temporary">> \in foreign
        /\ NoEffect /\ Refuse("exists") /\ UNCHANGED <<dirty>>
     \/ /\ \A e \in Ends : <<e, "root temporary">> \notin foreign
        /\ \/ \E a \in [Ends -> BOOLEAN] :
                /\ MakePair(a)
                /\ dirty' = dirty \cup (IF \A e \in Ends : a[e] THEN {} ELSE {"alias lost"})
                /\ \/ pc' = "find" /\ left' = Patience /\ UNCHANGED cause
                   \/ Raise("hard")
     \/ NoEffect /\ Raise("hard") /\ UNCHANGED dirty
  /\ UNCHANGED <<end, foreign, marked, found, moved, renamed>>

-----------------------------------------------------------------------------
(* _move_veth_endpoint                                                      *)

Find ==
  /\ pc = "find"
  /\ \E x \in Lookups(end, "root temporary") :
       /\ found' = x
       /\ IF x = Nothing THEN Retry("find") ELSE Step("own") \/ Fails("find")
  /\ UNCHANGED <<end, dev, foreign, harmed, marked, moved, renamed, dirty>>

(* The token is written on whatever the name was found to be.               *)
Aliased(x) == [dev[x[1]] EXCEPT !.alias = TRUE]
Own ==
  /\ pc = "own"
  /\ \/ /\ Change(found, Aliased(found))
        /\ marked' = marked \cup ({found} \cap Slots)
        /\ Step("move") \/ Fails("find")
     \/ NoEffect /\ Fails("find") /\ UNCHANGED marked
  /\ UNCHANGED <<end, foreign, found, moved, renamed, dirty>>

(* The next endpoint, or the configuration of the first one.                *)
AfterMove ==
  /\ moved' = moved \cup {end}
  /\ end' = Other(end)
  /\ pc' = IF end = "left" THEN "find" ELSE "open"
  /\ left' = Patience
  /\ UNCHANGED cause

(* A move whose answer is lost: the retry looks the end up where it no      *)
(* longer is.                                                               *)
Moved(x) == [dev[x[1]] EXCEPT !.at = "node temporary"]
Move ==
  /\ pc = "move"
  /\ \/ /\ Holder(end, "node temporary") = Nothing
        /\ Change(found, Moved(found))
        /\ \/ AfterMove /\ UNCHANGED dirty
           \/ /\ Fails("find") /\ UNCHANGED <<moved, end>>
              /\ dirty' = dirty \cup {"move answer lost"}
     \/ NoEffect /\ Fails("find") /\ UNCHANGED <<moved, end, dirty>>
     \/ /\ Holder(end, "node temporary") # Nothing
        /\ NoEffect /\ Raise("exists") /\ UNCHANGED <<moved, end, dirty>>
  /\ UNCHANGED <<foreign, marked, found, renamed>>

-----------------------------------------------------------------------------
(* _configure_veth_endpoint                                                 *)

Open ==
  /\ pc = "open"
  /\ LET place == IF end \in renamed THEN "node final" ELSE "node temporary" IN
     \E x \in Lookups(end, place) :
       /\ found' = x
       /\ \/ Fails("open")
          \/ x # Nothing /\ Step(IF end \in renamed THEN "mtu" ELSE "rename")
          \/ x = Nothing /\ (IF end \in renamed THEN Retry("open") ELSE Step("adopt"))
  /\ UNCHANGED <<end, dev, foreign, harmed, marked, moved, renamed, dirty>>

(* A rename whose answer was lost: the final name is ours if its alias is.  *)
(* AdoptAny: the alias is not looked at.  AdoptNone: only the temporary     *)
(* name counts.  AdoptDone: an adopted end is taken as configured.          *)
AdoptAny(x) == x # Nothing
IsOurs(x) == HasToken(x)
AdoptNone ==
  /\ pc = "adopt"
  /\ \/ IsOurs(Holder(end, "node final")) /\ found' = <<end, "ours">> /\ Step("rename") /\ UNCHANGED renamed
     \/ Fails("open") /\ UNCHANGED <<found, renamed>>
  /\ UNCHANGED <<end, dev, foreign, harmed, marked, moved, dirty>>
AdoptDone ==
  /\ pc = "adopt"
  /\ \E x \in Lookups(end, "node final") :
       \/ /\ IsOurs(x)
          /\ found' = x /\ renamed' = renamed \cup {end} /\ Step("qdisc")
       \/ Fails("open") /\ UNCHANGED <<found, renamed>>
  /\ UNCHANGED <<end, dev, foreign, harmed, marked, moved, dirty>>
Adopt ==
  /\ pc = "adopt"
  /\ \E x \in Lookups(end, "node final") :
       \/ /\ IsOurs(x)
          /\ found' = x /\ renamed' = renamed \cup {end} /\ Step("mtu")
       \/ ~IsOurs(x) /\ Retry("open") /\ UNCHANGED <<found, renamed>>
       \/ Fails("open") /\ UNCHANGED <<found, renamed>>
  /\ UNCHANGED <<end, dev, foreign, harmed, marked, moved, dirty>>

Renamed(x) == [dev[x[1]] EXCEPT !.at = "node final"]
Rename ==
  /\ pc = "rename"
  /\ \/ /\ Holder(end, "node final") = Nothing
        /\ Change(found, Renamed(found))
        /\ \/ Step("mtu") /\ renamed' = renamed \cup {end}
           \/ Fails("open") /\ UNCHANGED renamed
     \/ NoEffect /\ Fails("open") /\ UNCHANGED renamed
     \/ /\ Holder(end, "node final") # Nothing
        /\ NoEffect /\ Raise("exists") /\ UNCHANGED renamed
  /\ UNCHANGED <<end, foreign, marked, found, moved, dirty>>

Setting(label, next) ==
  /\ \/ Change(found, next) /\ (Step(label) \/ Fails("open"))
     \/ NoEffect /\ Fails("open")
  /\ UNCHANGED <<end, foreign, marked, found, moved, renamed, dirty>>

SetMtu == pc = "mtu" /\ Setting("up", [dev[end] EXCEPT !.mtu = TRUE])
SetUp == pc = "up" /\ Setting("qdisc", [dev[end] EXCEPT !.up = TRUE])

(* netem or a qdisc is added, not replaced: after a lost answer the retry   *)
(* meets the one it added itself.                                           *)
AfterQdisc ==
  IF end = "left" THEN pc' = "open" /\ end' = "right" /\ left' = Patience /\ UNCHANGED cause
  ELSE Step("done") /\ UNCHANGED end

AddQdisc ==
  /\ pc = "qdisc"
  /\ \/ /\ ~dev[end].disc
        /\ Change(found, [dev[end] EXCEPT !.disc = TRUE])
        /\ \/ AfterQdisc /\ UNCHANGED dirty
           \/ /\ Fails("open") /\ UNCHANGED end
              /\ dirty' = dirty \cup {"tc answer lost"}
     \/ NoEffect /\ Fails("open") /\ UNCHANGED <<end, dirty>>
     \/ dev[end].disc /\ NoEffect /\ Raise("exists") /\ UNCHANGED <<end, dirty>>
     \/ AfterQdisc /\ NoEffect /\ UNCHANGED dirty    \* neither is configured
  /\ UNCHANGED <<foreign, marked, found, moved, renamed>>

-----------------------------------------------------------------------------
(* _cleanup_veth: one guess per end of where it is and what it is called.   *)
(* Only devices with our token are deleted; the peer of an end goes with it.*)
(* GuessByRename: forgets the ends that were only moved.                    *)

GuessByRename(e) == IF e \in renamed THEN "node final" ELSE "root temporary"
Guess(e) == IF e \in renamed THEN "node final"
            ELSE IF e \in moved THEN "node temporary" ELSE "root temporary"

Guessed(es) == {Holder(e, Guess(e)) : e \in es}
WithToken == {e \in Ends : HasToken(Holder(e, Guess(e)))}

(* Each location is left after its first deletion.                          *)
FirstOnes == IF \A e \in Ends : Guess(e) = "root temporary" /\ e \in WithToken
             THEN {"left"} ELSE WithToken

Delete(xs) ==
  /\ dev' = IF xs \cap Ours = {} THEN dev ELSE [e \in Ends |-> Absent]
  /\ harmed' = harmed \cup (xs \cap Slots)

CleanUp ==
  /\ pc = "clean"
  /\ \/ \* every location was reached and answered
        Delete(Guessed(FirstOnes)) /\ UNCHANGED dirty
     \/ \* a handle, a lookup or a deletion failed, or was interrupted
        /\ dirty' = dirty \cup {"cleanup fault"}
        /\ \E es \in SUBSET WithToken : Delete(Guessed(es))
  /\ Step("failed")
  /\ UNCHANGED <<end, foreign, marked, found, moved, renamed>>

-----------------------------------------------------------------------------
(* Specification.                                                           *)

Init ==
  /\ pc = "lookup" /\ end = "left" /\ found = Nothing
  /\ dev = [e \in Ends |-> Absent]
  /\ foreign = {} /\ harmed = {} /\ marked = {} /\ moved = {} /\ renamed = {}
  /\ left = Patience /\ cause = "none" /\ dirty = {}

Call == \/ Lookup \/ AddPair \/ Find \/ Own \/ Move
        \/ Open \/ Adopt \/ Rename \/ SetMtu \/ SetUp \/ AddQdisc \/ CleanUp

Next == Call \/ Occupy

Spec == Init /\ [][Next]_vars

(* Each netlink call returns or is interrupted.                             *)
FairSpec == Spec /\ WF_vars(Call)

-----------------------------------------------------------------------------
(* Properties.                                                              *)

(* No device that nslab did not make is renamed, moved, changed or deleted, *)
(* whatever names it has taken and whichever answers were lost, but one:    *)
(* the device that takes the temporary name in the root namespace of an end *)
(* that a move has left without answering.  create_veth and _cleanup_veth   *)
(* act on names, and on names others may have.                              *)
OthersUnharmed ==
  harmed \subseteq (IF "move answer lost" \in dirty THEN {<<end, "root temporary">>} ELSE {})

(* When create_veth returns, both ends are in their namespace under their   *)
(* final name, with the MTU, up, and (as inventory_matches_plan will want)  *)
(* under our token, however often the steps were retried.                   *)
ReturnsConfigured ==
  pc = "done" => \A e \in Ends : /\ dev[e].at = "node final"
                                 /\ dev[e].alias /\ dev[e].mtu /\ dev[e].up

(* A retry never trips over what an earlier try did, a lost answer to "tc   *)
(* add" excepted: EEXIST is then about a device of somebody else.           *)
RetriesDoNotCollide ==
  cause = "exists" => foreign # {} \/ "tc answer lost" \in dirty

(* A failed create_veth whose cleanup was not itself disturbed leaves       *)
(* nothing.  Where the kernel ignored the alias of the new pair, or the     *)
(* clean-up came upon another's device that was given our token, the pair   *)
(* may stay, but then one end is in the root namespace under the temporary  *)
(* name that the inventory looks for.                                       *)
Gone == \A e \in Ends : dev[e].at = "nowhere"
Stray == dev["right"].at = "root temporary" /\ ("alias lost" \in dirty \/ harmed # {})
LeftoverIsVisible == pc = "failed" /\ "cleanup fault" \notin dirty => Gone \/ Stray

(* The retries are bounded: every call of create_veth returns or raises.    *)
Returns == <>(pc \in Final)
=============================================================================
