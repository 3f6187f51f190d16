--------------------------- MODULE YoloSelection ---------------------------
(* YoloSelectionState: which of the objects of a frame is the target.  The   *)
(* first one is the object nearest to the middle of the reticle among those  *)
(* that touch it; from then on it is the object of the same class that       *)
(* overlaps the last box most, or else the nearest one within a distance.    *)
(* A frame without it reports no target and keeps the last box.              *)
(*                                                                           *)
(* Boxes have whole coordinates; IoU and distance thresholds are ratios of   *)
(* whole numbers.  Confidence only breaks ties, which a choice does here.    *)
EXTENDS Integers, FiniteSets

CONSTANTS
    Boxes,      \* where the detector may see something, and the reticles
    Classes,
    IOU_NUM, IOU_DEN,   \* association_iou_threshold
    MAX_DISTANCE2,      \* square of twice the maximal distance of two centers
    MAX_DETECTIONS      \* read from one frame

ConstantsAssumption ==
    /\ \A b \in Boxes : b.x \in Nat /\ b.y \in Nat /\ b.w \in Nat \ {0} /\ b.h \in Nat \ {0}
    /\ IOU_NUM \in Nat /\ IOU_DEN \in Nat \ {0} /\ MAX_DISTANCE2 \in Nat
    /\ MAX_DETECTIONS \in Nat \ {0} /\ 0 \notin Classes

NoBox == [x |-> 0, y |-> 0, w |-> 0, h |-> 0]

Detections == [box : Boxes, class : Classes]

VARIABLES
    armed, selector, class, previous,   \* YoloSelectionState; class 0 is unset
    result,                             \* of the last frame: the box, NoBox if not found
    fresh                               \* history: nothing found since the selection was armed

vars == <<armed, selector, class, previous, result, fresh>>

Init ==
    /\ armed = FALSE /\ selector = NoBox /\ class = 0 /\ previous = NoBox
    /\ result = NoBox /\ fresh = FALSE

----------------------------------------------------------------------------

Larger(a, b) == IF a < b THEN b ELSE a
Smaller(a, b) == IF a < b THEN a ELSE b

Intersect(a, b) ==
    /\ a.x < b.x + b.w /\ b.x < a.x + a.w
    /\ a.y < b.y + b.h /\ b.y < a.y + a.h

Overlap(a, b) ==
    Larger(0, Smaller(a.x + a.w, b.x + b.w) - Larger(a.x, b.x))
      * Larger(0, Smaller(a.y + a.h, b.y + b.h) - Larger(a.y, b.y))

Union(a, b) == a.w * a.h + b.w * b.h - Overlap(a, b)

\* The IoU of a and b is at least that of c and d.
IouAtLeast(a, b, c, d) == Overlap(a, b) * Union(c, d) >= Overlap(c, d) * Union(a, b)

\* Square of twice the distance of the centers.
Distance2(a, b) ==
    LET dx == 2 * a.x + a.w - 2 * b.x - b.w
        dy == 2 * a.y + a.h - 2 * b.y - b.h
    IN  dx * dx + dy * dy

Nearest(box, candidates) ==
    {d \in candidates : \A e \in candidates : Distance2(box, d.box) <= Distance2(box, e.box)}

Overlapping(box, candidates) ==
    {d \in candidates : \A e \in candidates : IouAtLeast(box, d.box, box, e.box)}

\* _initial_detection.
Initial(seen) == Nearest(selector, {d \in seen : Intersect(selector, d.box)})

\* A bug for ClassIsKept: whatever is near.
OfAnyClass(seen) == seen

OfClass(seen) == {d \in seen : d.class = class}

Near(d) == Distance2(previous, d.box) <= MAX_DISTANCE2

Close(d) == IOU_DEN * Overlap(previous, d.box) >= IOU_NUM * Union(previous, d.box)

\* _associated_detection.
Associated(seen) ==
    LET byIou == Overlapping(previous, OfClass(seen))
    IN  IF \E d \in byIou : Close(d) THEN byIou
        ELSE {d \in Nearest(previous, OfClass(seen)) : Near(d)}

\* A bug for TargetMovesSmoothly: a lost target is searched in the reticle.
CandidatesOrInitial(seen) ==
    IF class = 0 \/ Associated(seen) = {} THEN Initial(seen) ELSE Associated(seen)

Candidates(seen) == IF class = 0 THEN Initial(seen) ELSE Associated(seen)

----------------------------------------------------------------------------

\* select, on the streaming thread, with what read_cpu_yolo_detection has read.
Select ==
    /\ armed
    /\ \E seen \in SUBSET Detections :
        /\ Cardinality(seen) <= MAX_DETECTIONS
        /\ \/ /\ Candidates(seen) = {}
              /\ result' = NoBox /\ UNCHANGED <<class, previous, fresh>>
           \/ \E d \in Candidates(seen) :
                /\ result' = d.box /\ class' = d.class /\ previous' = d.box
                /\ fresh' = FALSE
    /\ UNCHANGED <<armed, selector>>

\* A frame of a disabled selection carries no result.
Skip == ~armed /\ result' = NoBox /\ UNCHANGED <<armed, selector, class, previous, fresh>>

\* A bug for FirstIsInReticle: arming keeps what was followed.
ArmedClassKept == class

ArmedClass == 0

\* arm, on the main thread, possibly of an armed selection.
Arm ==
    /\ \E b \in Boxes : selector' = b
    /\ armed' = TRUE /\ class' = ArmedClass
    /\ previous' = IF ArmedClass = 0 THEN NoBox ELSE previous
    /\ fresh' = TRUE /\ UNCHANGED result

Disable ==
    /\ armed' = FALSE /\ selector' = NoBox /\ class' = 0 /\ previous' = NoBox
    /\ fresh' = FALSE /\ UNCHANGED result

Next == Select \/ Skip \/ Arm \/ Disable

Spec == Init /\ [][Next]_vars

----------------------------------------------------------------------------

\* A target is remembered with its class, and only in an armed selection.
TypeOK ==
    /\ armed \in BOOLEAN /\ {selector, previous, result} \subseteq Boxes \cup {NoBox}
    /\ class \in Classes \cup {0} /\ fresh \in BOOLEAN
    /\ (previous = NoBox <=> class = 0) /\ (class # 0 => armed)

\* The first target of a lock touches the reticle of that lock, whatever was
\* followed before (cpuyolodetect_usage.md:285).
FirstIsInReticle ==
    [][fresh /\ ~fresh' /\ armed' => Intersect(selector, previous')]_vars

\* A lock stays with one class.
ClassIsKept == [][class # 0 /\ class' # 0 => class' = class]_vars

\* A target is taken up again only near the box it was last seen in, however
\* many frames it was lost for (cpuyolodetect_usage.md:297).
TargetMovesSmoothly ==
    [][previous # NoBox /\ previous' # NoBox =>
        \/ Distance2(previous, previous') <= MAX_DISTANCE2
        \/ IOU_DEN * Overlap(previous, previous') >= IOU_NUM * Union(previous, previous')]_vars

=============================================================================
