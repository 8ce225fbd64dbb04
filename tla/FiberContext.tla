---------------------------- MODULE FiberContext ----------------------------
(***************************************************************************)
(* The continuations under every context: stacks that hand the thread to   *)
(* each other through handles (objects of the class FiberContext), each    *)
(* handle good for one jump.  Whoever destroys a handle that still names a *)
(* stack unwinds that stack.  One OS thread.                               *)
(*                                                                         *)
(* Every place that may hold an fcontext_t is a slot: a handle variable of *)
(* the program (Context::c_, or f1, f2, f3 of example/fcontext_test.cpp),  *)
(* the parameter of a stack's function, a temporary about to be destroyed, *)
(* and t.fctx in the frame of FiberEntry.                                  *)
(***************************************************************************)
EXTENDS Naturals

CONSTANTS
  Fibers,   (* the stacks that CreateFiber may make      *)
  Root,     (* the stack of the OS thread                *)
  Names,    (* the handle variables of the program       *)
  Null      (* no continuation                           *)

ASSUME StacksAssumption == Root \notin Fibers /\ Null \notin Fibers \cup {Root}

Stacks == Fibers \cup {Root}

Var(v)   == <<v, "var">>
Param(s) == <<s, "param">>
Dying(s) == <<s, "dying">>
Entry(s) == <<s, "entry">>

Slots == (Names \X {"var"}) \cup (Stacks \X {"param", "dying", "entry"})

VARIABLES
  running,  (* the stack that runs                                         *)
  mode,     (* [Stacks -> Modes]                                           *)
  fctx,     (* [Slots -> Stacks or Null], the continuation in each slot    *)
  dest,     (* [Stacks -> Slots], where the result of a stack's jump goes  *)
  halted    (* "no", "uncaught" or "null"                                  *)

vars == <<running, mode, fctx, dest, halted>>

(***************************************************************************)
(* A stack waits at the jump in FiberEntry, is in its function (or in a    *)
(* jump that this made), has left its function for FiberEntry by a return  *)
(* or by forced_unwind, or is deallocated.  The program ends when the      *)
(* thread's own stack is unwound ("uncaught": nothing catches              *)
(* forced_unwind there) or a stack ends that has nowhere to go ("null").   *)
(***************************************************************************)
Modes == {"unborn", "entry", "code", "ending", "freed"}

Live(s) == mode[s] \in {"entry", "code", "ending"}

\* The handles that the code on the stack s can use.
Handles(s) == (Names \X {"var"}) \cup IF s = Root THEN {} ELSE {Param(s)}

Init ==
  /\ running = Root
  /\ mode = [s \in Stacks |-> IF s = Root THEN "code" ELSE "unborn"]
  /\ fctx = [x \in Slots |-> Null]
  /\ dest = [s \in Stacks |-> Dying(s)]
  /\ halted = "no"

Halt(why) == halted' = why /\ UNCHANGED <<running, mode, fctx, dest>>

\* The stack s runs code of the program.
InCode(s) ==
  /\ halted = "no" /\ running = s
  /\ mode[s] = "code" /\ fctx[Dying(s)] = Null

(***************************************************************************)
(* The stack s goes on with c as the result of its jump: FiberEntry hands  *)
(* it to the function as parameter, a Resume assigns it to the handle it   *)
(* is written to, whose old continuation dies.  f and m are the slots and  *)
(* modes that the jump found.                                              *)
(***************************************************************************)
Deliver(s, c, f, m) ==
  /\ running' = s
  /\ IF m[s] = "entry"
     THEN /\ fctx' = [f EXCEPT ![Param(s)] = c]
          /\ mode' = [m EXCEPT ![s] = "code"]
     ELSE /\ fctx' = [f EXCEPT ![Dying(s)] = f[dest[s]], ![dest[s]] = c]
          /\ mode' = m

-----------------------------------------------------------------------------
\* h = FiberContext{fn}: CreateFiber jumps to the new stack w, and FiberEntry
\* jumps back at once.
Create(s, h, w) ==
  /\ InCode(s) /\ mode[w] = "unborn"
  /\ mode' = [mode EXCEPT ![w] = "entry"]
  /\ fctx' = [fctx EXCEPT ![Dying(s)] = fctx[h], ![h] = w]
  /\ UNCHANGED <<running, dest, halted>>

\* Mutant of Resume: the handle keeps its continuation.
ResumeKeeping(s, h, d) ==
  /\ InCode(s) /\ fctx[h] # Null
  /\ Deliver(fctx[h], s, fctx, mode)
  /\ dest' = [dest EXCEPT ![s] = d]
  /\ UNCHANGED halted

\* d = std::move(h).Resume(); without d the result is a temporary that dies.
Resume(s, h, d) ==
  /\ InCode(s) /\ fctx[h] # Null
  /\ Deliver(fctx[h], s, [fctx EXCEPT ![h] = Null], mode)
  /\ dest' = [dest EXCEPT ![s] = d]
  /\ UNCHANGED halted

(***************************************************************************)
(* std::move(h).ResumeWith(lambda) as Context::Resume calls it: on the     *)
(* stack resumed the lambda stores the caller in x, which is empty, and    *)
(* returns an empty handle.                                                *)
(***************************************************************************)
ResumeWith(s, h, x) ==
  /\ InCode(s) /\ fctx[h] # Null
  /\ x = h \/ fctx[x] = Null
  /\ Deliver(fctx[h], Null, [fctx EXCEPT ![h] = Null, ![x] = s], mode)
  /\ dest' = [dest EXCEPT ![s] = Dying(s)]
  /\ UNCHANGED halted

\* Mutant of Move: operator= forgets what the handle named.
MoveForgetting(s, h, x) ==
  /\ InCode(s) /\ h # x /\ fctx[h] # Null
  /\ fctx' = [fctx EXCEPT ![x] = fctx[h], ![h] = Null]
  /\ UNCHANGED <<running, mode, dest, halted>>

\* x = std::move(h)
Move(s, h, x) ==
  /\ InCode(s) /\ h # x /\ fctx[h] # Null
  /\ fctx' = [fctx EXCEPT ![Dying(s)] = fctx[x], ![x] = fctx[h], ![h] = Null]
  /\ UNCHANGED <<running, mode, dest, halted>>

\* The handle h is destroyed, or an empty one is assigned to it.
Drop(s, h) ==
  /\ InCode(s) /\ fctx[h] # Null
  /\ fctx' = [fctx EXCEPT ![Dying(s)] = fctx[h], ![h] = Null]
  /\ UNCHANGED <<running, mode, dest, halted>>

\* The function of s returns the handle h, which may be empty, to FiberEntry.
Return(s, h) ==
  /\ InCode(s) /\ s # Root
  /\ fctx' = [fctx EXCEPT ![Entry(s)] = fctx[h], ![h] = Null]
  /\ mode' = [mode EXCEPT ![s] = "ending"]
  /\ UNCHANGED <<running, dest, halted>>

-----------------------------------------------------------------------------
\* Mutant of Unwind: the thread's own stack is unwound like a fiber's.
UnwindRoot(s) ==
  /\ halted = "no" /\ running = s /\ fctx[Dying(s)] # Null
  /\ LET u == fctx[Dying(s)] IN
     /\ running' = u
     /\ mode' = [mode EXCEPT ![u] = "ending"]
     /\ fctx' = [fctx EXCEPT ![Dying(s)] = Null, ![Entry(u)] = s]
     /\ dest' = [dest EXCEPT ![s] = Dying(s)]
     /\ UNCHANGED halted

(***************************************************************************)
(* The destructor of a handle that names the stack u: FiberUnwind throws   *)
(* forced_unwind on it, which FiberEntry catches, with the destroying      *)
(* stack as where to go on.                                                *)
(***************************************************************************)
Unwind(s) ==
  /\ halted = "no" /\ running = s /\ fctx[Dying(s)] # Null
  /\ LET u == fctx[Dying(s)] IN
     IF u = Root THEN Halt("uncaught")
     ELSE /\ running' = u
          /\ mode' = [mode EXCEPT ![u] = "ending"]
          /\ fctx' = [fctx EXCEPT ![Dying(s)] = Null, ![Entry(u)] = s]
          /\ dest' = [dest EXCEPT ![s] = Dying(s)]
          /\ UNCHANGED halted

\* On its way out a stack destroys the parameter of its function.
DestroyParam(s) ==
  /\ halted = "no" /\ running = s /\ mode[s] = "ending"
  /\ fctx[Dying(s)] = Null /\ fctx[Param(s)] # Null
  /\ fctx' = [fctx EXCEPT ![Dying(s)] = fctx[Param(s)], ![Param(s)] = Null]
  /\ UNCHANGED <<running, mode, dest, halted>>

\* Mutant of Exit: FiberExit does not deallocate.
ExitKeeping(s) ==
  /\ halted = "no" /\ running = s /\ mode[s] = "ending"
  /\ fctx[Dying(s)] = Null /\ fctx[Param(s)] = Null
  /\ IF fctx[Entry(s)] = Null THEN Halt("null")
     ELSE /\ Deliver(fctx[Entry(s)], Null, [fctx EXCEPT ![Entry(s)] = Null], mode)
          /\ UNCHANGED <<dest, halted>>

\* The end of FiberEntry: on the next stack FiberExit deallocates this one.
Exit(s) ==
  /\ halted = "no" /\ running = s /\ mode[s] = "ending"
  /\ fctx[Dying(s)] = Null /\ fctx[Param(s)] = Null
  /\ IF fctx[Entry(s)] = Null THEN Halt("null")
     ELSE /\ Deliver(fctx[Entry(s)], Null, [fctx EXCEPT ![Entry(s)] = Null],
                     [mode EXCEPT ![s] = "freed"])
          /\ UNCHANGED <<dest, halted>>

\* What a stack has to do once a handle dies or its function has ended.
EndingStep(s) == Unwind(s) \/ DestroyParam(s) \/ Exit(s)

Next ==
  \E s \in Stacks :
    \/ \E h \in Handles(s) :
         \/ \E w \in Fibers : Create(s, h, w)
         \/ \E d \in Handles(s) \cup {Dying(s)} : Resume(s, h, d)
         \/ \E v \in Names : ResumeWith(s, h, Var(v))
         \/ \E x \in Handles(s) : Move(s, h, x)
         \/ Drop(s, h)
         \/ Return(s, h)
    \/ EndingStep(s)

Spec == Init /\ [][Next]_vars

\* A thread does not stop in the middle of a destructor or of FiberEntry.
FairSpec == Spec /\ \A s \in Stacks : WF_vars(EndingStep(s))

-----------------------------------------------------------------------------
\* The values of every variable.
TypeOK ==
  /\ running \in Stacks
  /\ mode \in [Stacks -> Modes] /\ mode[Root] = "code"
  /\ fctx \in [Slots -> Stacks \cup {Null}]
  /\ \A s \in Stacks : dest[s] \in Handles(s) \cup {Dying(s)}
  /\ DOMAIN dest = Stacks
  /\ halted \in {"no", "uncaught", "null"}

Holds(x, s) == fctx[x] = s

(***************************************************************************)
(* A continuation is good for one jump: each stack that is parked is in    *)
(* exactly one slot, through moves, jumps, nested unwinding and exits, and *)
(* no slot names the running stack, or one that is not there (the          *)
(* assertions in FiberContext.h:64, 267 and 273 guard only against Null).  *)
(***************************************************************************)
EachParkedOnce ==
  /\ \A s \in Stacks :
       (\E x \in Slots : Holds(x, s)) <=> (Live(s) /\ s # running)
  /\ \A x, y \in Slots : fctx[x] # Null /\ fctx[x] = fctx[y] => x = y

\* The slots that live on the stack s.
SlotsOf(s) == {Param(s), Dying(s), Entry(s)}

(***************************************************************************)
(* No stack is lost: no set of parked stacks is named only by slots of its *)
(* own, so that each of them can be reached from the running stack or from *)
(* a variable of the program.  Stacks that own each other in a circle      *)
(* would never be unwound.                                                 *)
(***************************************************************************)
NothingOutOfReach ==
  \A C \in SUBSET {s \in Stacks : Live(s) /\ s # running} :
    C # {} => \E x \in Slots : fctx[x] \in C /\ \A s \in C : x \notin SlotsOf(s)

(***************************************************************************)
(* A stack that has left its function is deallocated at last, with all the *)
(* stacks that it unwinds on its way, unless the program ends.             *)
(***************************************************************************)
EndingIsFreed ==
  \A s \in Fibers : mode[s] = "ending" ~> mode[s] = "freed" \/ halted # "no"

(***************************************************************************)
(* Destroying a handle is a call that returns: the destroying stack goes   *)
(* on only when the stack it unwinds has been deallocated.                 *)
(***************************************************************************)
DestructorsReturn ==
  [][\A s \in Stacks, u \in Fibers :
       fctx[Entry(u)] = s /\ running # s /\ running' = s => mode'[u] = "freed"]_vars

-----------------------------------------------------------------------------
(***************************************************************************)
(* What makes EachParkedOnce inductive.  Each step of a stack that ends    *)
(* overwrites slots of stacks that do not run, so those must be empty:     *)
(* only the running stack has a dying temporary, only a stack that ends    *)
(* has a t.fctx, and only one whose function was called has a parameter.   *)
(* A stack that is parked inside a destructor is named by the t.fctx of    *)
(* what it destroys, so no handle can resume it or unwind it again.        *)
(***************************************************************************)
OnlyRunningDrops == \A s \in Stacks : fctx[Dying(s)] # Null => s = running

OnlyEndingExits == \A s \in Stacks : fctx[Entry(s)] # Null => mode[s] = "ending"

OnlyEnteredHasParam ==
  \A s \in Stacks : fctx[Param(s)] # Null => mode[s] \in {"code", "ending"}

EndingIsAwaited ==
  \A x \in Slots, s \in Stacks :
    Holds(x, s) /\ mode[s] = "ending" => \E u \in Stacks : x = Entry(u)

RunningIsCalled == mode[running] \in {"code", "ending"}

StacksInv ==
  /\ TypeOK /\ RunningIsCalled /\ EachParkedOnce /\ OnlyRunningDrops
  /\ OnlyEndingExits /\ OnlyEnteredHasParam /\ EndingIsAwaited

=============================================================================
