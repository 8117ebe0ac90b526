--------------------------- MODULE FramePlacement ---------------------------
(***************************************************************************)
(* What stack allocation promises the rest of the VM, whatever the         *)
(* compiler does to get there: each allocation of a method is decided      *)
(* once, and at no time may a heap object hold a reference to an object    *)
(* that lives in the frame. The collector and the frame's return both rely *)
(* on it: nothing in the heap is fixed up when the frame goes away.        *)
(***************************************************************************)
CONSTANTS Obj, Places
VARIABLES holds,   \* <<x, y>>: x may hold a reference to y
          placed   \* what became of each allocation

fpVars == <<holds, placed>>

\* No heap object may hold a reference to another object on the stack.
FrameSafe ==
  \A x, y \in Obj : x # y /\ <<x, y>> \in holds =>
    ~(placed[x] = "heap" /\ placed[y] = "stack")

FPInit ==
  /\ holds \in SUBSET (Obj \X Obj)
  /\ placed = [o \in Obj |-> "macro"]

\* Some undecided allocations are decided, and the result is safe.
Decide ==
  /\ placed' \in [Obj -> Places]
  /\ \A o \in Obj : placed[o] # "macro" => placed'[o] = placed[o]
  /\ UNCHANGED holds
  /\ FrameSafe'

FPSpec == FPInit /\ [][Decide]_fpVars
=============================================================================
