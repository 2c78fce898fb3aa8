------------------------------ MODULE Envelope --------------------------------
(***************************************************************************)
(* The envelope polygon of one object and its smoothing across planning   *)
(* cycles (src/unnamed/part_002): createEnvelopePolygon (lines 503-548)   *)
(* and fillObjectEnvelopePolygon (lines 688-729).                         *)
(*                                                                         *)
(* createEnvelopePolygon takes the axis-aligned box of a polygon in the   *)
(* frame of the closest path pose and expands it by the buffer, so an     *)
(* envelope is a box [xlo, xhi] x [ylo, yhi] of that frame, in 0.25 m     *)
(* units; an object's footprint is the box of its polygon.  Abstracted:   *)
(* the closest pose stays the same from cycle to cycle, so the frames of  *)
(* two cycles agree.                                                       *)
(*                                                                         *)
(* The registered envelope of the id is the one the object got in the     *)
(* cycle it was last a target: updateRegisteredObject copies the target   *)
(* ObjectData into registered_objects_ (lines 863-865).  A cycle in which *)
(* the object is not a target leaves that entry as it is.                  *)
(***************************************************************************)
EXTENDS Integers, SequencesExt

CONSTANT EnvelopeBufferMargin   \* envelope_buffer_margin * distance_factor

NoBox == [xlo |-> 0, xhi |-> -1, ylo |-> 0, yhi |-> -1]

(* createEnvelopePolygon (lines 503-548): the box of the polygon, which   *)
(* is already a box here, expanded by the buffer.                          *)
CreateEnvelopePolygon(b, buffer) ==
  [xlo |-> b.xlo - buffer, xhi |-> b.xhi + buffer,
   ylo |-> b.ylo - buffer, yhi |-> b.yhi + buffer]

(* boost::geometry::within, and the box of two boxes. *)
BoxWithin(a, b) == b.xlo <= a.xlo /\ a.xhi <= b.xhi /\ b.ylo <= a.ylo /\ a.yhi <= b.yhi

BoxHull(a, b) ==
  [xlo |-> IF a.xlo < b.xlo THEN a.xlo ELSE b.xlo, xhi |-> IF a.xhi > b.xhi THEN a.xhi ELSE b.xhi,
   ylo |-> IF a.ylo < b.ylo THEN a.ylo ELSE b.ylo, yhi |-> IF a.yhi > b.yhi THEN a.yhi ELSE b.yhi]

(* The length of the overlap of [lo1, hi1] and [lo2, hi2], negative when  *)
(* they are apart.                                                         *)
Overlap(lo1, hi1, lo2, hi2) == (IF hi1 < hi2 THEN hi1 ELSE hi2) - (IF lo1 > lo2 THEN lo1 ELSE lo2)

(***************************************************************************)
(* unions.front() of boost::geometry::union_(a, b, unions) (lines 717-718) *)
(* for two boxes, as the set of polygons it may be.  Boxes that share more *)
(* than a point dissolve into one polygon, whose box is their hull.  Boxes *)
(* apart are both output, the rings of the first input first.  Boxes that  *)
(* touch at a corner may come out either way.                              *)
(***************************************************************************)
UnionFrontsOldFirst(a, b) ==
  LET ox == Overlap(a.xlo, a.xhi, b.xlo, b.xhi)
      oy == Overlap(a.ylo, a.yhi, b.ylo, b.yhi)
  IN  IF ox < 0 \/ oy < 0 THEN {b}
      ELSE IF ox = 0 /\ oy = 0 THEN {BoxHull(a, b), b}
      ELSE {BoxHull(a, b)}

UnionFronts(a, b) ==
  LET ox == Overlap(a.xlo, a.xhi, b.xlo, b.xhi)
      oy == Overlap(a.ylo, a.yhi, b.ylo, b.yhi)
  IN  IF ox < 0 \/ oy < 0 THEN {a}
      ELSE IF ox = 0 /\ oy = 0 THEN {BoxHull(a, b), a}
      ELSE {BoxHull(a, b)}

(***************************************************************************)
(* fillObjectEnvelopePolygon (lines 688-729): the envelopes an object with *)
(* footprint fp may get, given the registered envelope of its id (NoBox    *)
(* when there is none).  The unions.empty() branch is not taken for boxes. *)
(***************************************************************************)
FillObjectEnvelopePolygon(fp, registered) ==
  LET envelopePoly == CreateEnvelopePolygon(fp, EnvelopeBufferMargin)
  IN  IF registered = NoBox THEN {envelopePoly}
      ELSE IF BoxWithin(envelopePoly, registered) THEN {registered}
      ELSE {CreateEnvelopePolygon(u, 0) : u \in UnionFronts(envelopePoly, registered)}

(* The envelopes the object may have after a history of cycles, each the  *)
(* footprint of a cycle in which it is a target, or NoBox for a cycle in   *)
(* which it is not.                                                        *)
EnvelopesAfter(h) ==
  FoldLeft(LAMBDA acc, fp :
             IF fp = NoBox THEN acc
             ELSE UNION {FillObjectEnvelopePolygon(fp, e) : e \in acc},
           {NoBox}, h)
================================================================================
