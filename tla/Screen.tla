------------------------------- MODULE Screen -------------------------------
(***************************************************************************)
(* What the sidecar may see of the screen (riki-capture: window_match,     *)
(* geometry, pixels, frame, hash): one window is chosen out of those the   *)
(* platform offers, a region of it is resolved to pixels, the pixels are   *)
(* copied out of a padded surface, and a region that did not change is     *)
(* told from one that did.                                                 *)
(***************************************************************************)
EXTENDS Integers, Sequences, FiniteSets

CONSTANTS
    Offers,    \* bound: the lists of windows the platform may offer, front first
    Sizes,     \* bound: the windows' sizes, records [w, h]
    Rects,     \* bound: regions asked for, in hundredths of the window
    Paddings   \* bound: pixels of padding at the end of a row

\* A window under the game's own bundle is no other application's.
ASSUME ScreenAssumption ==
    /\ Offers \subseteq Seq([app : STRING, title : STRING, bundle : STRING, area : Nat, shown : BOOLEAN])
    /\ \A offer \in Offers : \A i \in DOMAIN offer :
          offer[i].bundle = "com.valvesoftware.dota2" => offer[i].app \notin {"browser", "trainer"}
    /\ Sizes \subseteq [w : Nat, h : Nat]
    /\ Rects \subseteq [x : Nat, y : Nat, w : Nat, h : Nat]
    /\ Paddings \subseteq Nat

VARIABLES
    captured,    \* the window captured, or NoWindow
    surface,   \* its size and row padding
    region,    \* the region resolved in it, or NoRegion
    copied,    \* the pixels read for it, as the places they came from
    gate       \* the last hash of the region and whether it was news
screenVars == <<captured, surface, region, copied, gate>>

NoWindow == [app |-> "none", title |-> "none", bundle |-> "none", area |-> 0, shown |-> FALSE]
NoRegion == [x |-> 0, y |-> 0, w |-> 0, h |-> 0, coverage |-> 0]
NoSurface == [w |-> 0, h |-> 0, pad |-> 0]

ScreenInit ==
    /\ captured = NoWindow /\ surface = NoSurface /\ region = NoRegion /\ copied = <<>>
    /\ gate = [hash |-> "none", changed |-> FALSE]

-----------------------------------------------------------------------------
(* Choosing the window *)

(* A name is the wanted one, the wanted one with an ending, or another that *)
(* only contains it; a bundle counts by its last component.                 *)
MatchesApplication(window) ==
    \/ window.bundle = "com.valvesoftware.dota2"
    \/ window.app \in {"dota2", "dota2.exe", "Dota2 launcher"}
MatchesTitle(window) == window.title \in {"Dota 2", "Dota 2 guide"}

(* Mutant: the title tells. *)
MatchesByTitle(window) == window.shown /\ window.area > 0 /\ MatchesTitle(window)
IsTheGame(window) ==
    window.shown /\ window.area > 0 /\ MatchesApplication(window) /\ MatchesTitle(window)

(* select: the largest, the frontmost of equals. *)
Select(offer) ==
    LET ours == {i \in DOMAIN offer : IsTheGame(offer[i])}
        better(i, j) == \/ offer[i].area > offer[j].area
                        \/ offer[i].area = offer[j].area /\ i <= j
    IN IF ours = {} THEN NoWindow ELSE offer[CHOOSE i \in ours : \A j \in ours : better(i, j)]

Acquire == \E offer \in Offers, size \in Sizes, pad \in Paddings :
    /\ captured = NoWindow
    /\ captured' = Select(offer)
    /\ surface' = [w |-> size.w, h |-> size.h, pad |-> pad]
    /\ UNCHANGED <<region, copied, gate>>

-----------------------------------------------------------------------------
(* Resolving the region and reading it *)

Floor(n) == n \div 100
Ceil100(n)  == (n + 99) \div 100
Least(m, n) == IF m < n THEN m ELSE n

(* resolve: rounded outward, cut to the window; the coverage is what is left *)
(* of the area asked for, in hundredths that are begun, and a region wholly  *)
(* outside is none.                                                          *)
Resolve(rect, s) ==
    LET right == Least((rect.x + rect.w) * s.w, 100 * s.w)
        bottom == Least((rect.y + rect.h) * s.h, 100 * s.h)
        x == Floor(rect.x * s.w)
        y == Floor(rect.y * s.h)
        w == Least(Ceil100(right) - x, s.w - x)
        h == Least(Ceil100(bottom) - y, s.h - y)
        asked == rect.w * s.w * rect.h * s.h
    IN IF s.w = 0 \/ s.h = 0 \/ asked = 0 \/ w <= 0 \/ h <= 0 THEN NoRegion
       ELSE [x |-> x, y |-> y, w |-> w, h |-> h,
             coverage |-> (100 * (right - rect.x * s.w) * (bottom - rect.y * s.h) + asked - 1) \div asked]

ResolveRegion == \E rect \in Rects :
    /\ captured # NoWindow
    /\ region' = Resolve(rect, surface)
    /\ copied' = <<>>
    /\ UNCHANGED <<captured, surface, gate>>

(* The surface is one row of pixels after another, padding and all. *)
PlaceOf(s, offset) == [x |-> offset % (s.w + s.pad), y |-> offset \div (s.w + s.pad)]

(* crop_bgra_to_rgba: row by row at the stride of the surface, up to a row  *)
(* that is not all there: the surface may be torn after some rows.          *)
Crop(s, r, rows) ==
    LET stride == s.w + s.pad
        whole == {row \in 0 .. r.h - 1 : (r.y + row) * stride + r.x + r.w <= rows * stride}
    IN [i \in 1 .. Cardinality(whole) * r.w |->
            PlaceOf(s, (r.y + (i - 1) \div r.w) * stride + r.x + ((i - 1) % r.w))]

(* ChangeGate: the first sight of a region is news. *)
Observe(hash) == gate' = [hash |-> hash, changed |-> gate.hash # hash]

ReadRegion ==
    /\ region # NoRegion
    /\ \E rows \in {surface.h, surface.h - 1} : copied' = Crop(surface, region, rows)
    /\ \E hash \in {"map", "shop"} : Observe(hash)
    /\ UNCHANGED <<captured, surface, region>>

(* release, and what was known of the region with it. *)
ReleaseWindow ==
    /\ captured' = NoWindow /\ surface' = NoSurface /\ region' = NoRegion /\ copied' = <<>>
    /\ gate' = [hash |-> "none", changed |-> FALSE]

ScreenNext == Acquire \/ ResolveRegion \/ ReadRegion \/ ReleaseWindow
ScreenSpec == ScreenInit /\ [][ScreenNext]_screenVars

-----------------------------------------------------------------------------

Inside(p) == /\ p.x \in region.x .. region.x + region.w - 1
             /\ p.y \in region.y .. region.y + region.h - 1

(* OnlyTheGameIsSeen: every pixel read is one of the region asked for, of a  *)
(* window that is the game's by name and by title, in the order of the       *)
(* picture whatever the padding of its rows; a region is never wider than    *)
(* its window, and one that was cut says so                                  *)
(* (window_match.rs:51-97, geometry.rs:52-110, pixels.rs:25-64).             *)
OnlyTheGameIsSeen ==
    /\ captured # NoWindow => captured.shown /\ captured.app \notin {"browser", "trainer"}
    /\ region # NoRegion =>
          /\ region.x + region.w <= surface.w /\ region.y + region.h <= surface.h
          /\ region.coverage \in 1 .. 100
    /\ \A i \in DOMAIN copied : Inside(copied[i]) /\ copied[i].x < surface.w
    /\ \A i, j \in DOMAIN copied : i < j =>
          \/ copied[i].y < copied[j].y
          \/ copied[i].y = copied[j].y /\ copied[i].x < copied[j].x
=============================================================================
