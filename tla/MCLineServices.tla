---------------------------- MODULE MCLineServices ----------------------------
(* What a LINE account is used for, one scene at a time: points and coupons  *)
(* of two members ("members"); three customers after the places of one day   *)
(* ("places"); the messages about one appointment ("news"); a customer fills *)
(* the application of the two-piece campaign ("talk"); a submitted one is    *)
(* reviewed, returned, paid, sent ("desk"); an approved one whose parcel the *)
(* staff cancelled is repaired ("repair").                                   *)
EXTENDS MemberRewards, Booking, JibaUnbox, TLC

CONSTANTS m1, m2, f1, f2, a1, a2, a3
VARIABLE scene

OfForm == (f1 :> m1) @@ (f2 :> m1)
ByForm == (f1 :> 2) @@ (f2 :> -1)
Symmetry == Permutations(Requests) \cup Permutations({a2, a3})

Booked == {a \in Appointments : appts[a] # Absent}
Doing(op) == {d \in Desks : desk[d].op = op}
\* Nobody is told in "places": a request that would tell ends at once.
Ends == Doing("tell") # {} => \E d \in Doing("tell") : Dies(d)
PlacesScene ==
    /\ BookingNext /\ Ends /\ clock' = 0 /\ raced' \subseteq {2}
    /\ (Cardinality(Booked) + Cardinality(untold) <= 4 - peak)'
    /\ (Doing("push") \cup Doing("mark") \cup Doing("scan") = {})'
NewsScene ==
    /\ BookingNext /\ peak' = 1 /\ raced' = {} /\ Cardinality(Booked)' <= 1
    /\ \A d \in Doing("book")' : desk'[d].slot = 2
    /\ told' = {} \/ withheld' = {}   \* one deployment

Coming == UNION {{task[w].todo[i] : i \in DOMAIN task[w].todo} : w \in Workers}
Kinds == {s.do : s \in Coming}
Turns == {s.step : s \in {t \in Coming : t.do \in {"peek", "move"}}}
TalkScene == JibaNext /\ (submitted # {} => \A w \in Workers : task'[w] # Free => task[w] # Free)
DeskScene ==
    /\ JibaNext /\ recalled' = {} /\ "same" \notin Kinds'
    /\ \A a \in Apps : ~talk'[a].taken /\ (app'[a].status = "collecting" => app'[a].pay = "unpaid")
    /\ Turns' \subseteq {"licence", "confirm", "review", "awaiting", "ready", "cancelled"}
RepairScene ==
    /\ JibaNext /\ {"same", "declare"} \cap Kinds' = {} /\ Turns' \subseteq {"ready"}
From(status, placed, sent, step) ==
    /\ app = [a \in Apps |-> [status |-> status, pay |-> "unpaid", filled |-> Asked, agreed |-> TRUE]]
    /\ talk = [a \in Apps |-> [open |-> TRUE, step |-> step, taken |-> FALSE, notes |-> {"upsell"}]]
    /\ order = [a \in Apps |-> placed] /\ parcels = [a \in Apps |-> sent]
    /\ task = [w \in Workers |-> Free]
    /\ submitted = Apps /\ agreedOnce = Apps /\ verified = {}

MCInit ==
    /\ Init /\ BookingInit
    /\ scene \in {"members", "places", "news", "talk", "desk", "repair"}
    /\ scene # "places" => capacity = 1
    /\ CASE scene = "desk" -> From("pending", "pending_review", <<>>, "review") /\ recalled = {}
         [] scene = "repair" -> From("awaiting", "cancelled", <<"cancelled">>, "awaiting") /\ recalled = Apps
         [] OTHER -> JibaInit
MCNext ==
    /\ UNCHANGED scene
    /\ scene # "members" => UNCHANGED vars
    /\ scene \notin {"places", "news"} => UNCHANGED bookingVars
    /\ scene \notin {"talk", "desk", "repair"} => UNCHANGED jibaVars
    /\ \/ scene = "members" /\ Next
       \/ scene = "places" /\ PlacesScene
       \/ scene = "news" /\ NewsScene
       \/ scene = "talk" /\ TalkScene
       \/ scene = "desk" /\ DeskScene
       \/ scene = "repair" /\ RepairScene
MCSpec == MCInit /\ [][MCNext]_<<vars, bookingVars, jibaVars, scene>>
===============================================================================
