------------------------------ MODULE Coroutine ------------------------------
(***************************************************************************)
(* xcoroutine on one thread, as built with ucontext: functions run on      *)
(* routines, which are taken from a list and go back to it, and a switch   *)
(* saves where the code that switches is in one of the contexts: that of a *)
(* routine or __main_ctx, of which the thread has one.                     *)
(*                                                                         *)
(* The code that runs may create a function, resume one that yielded,      *)
(* yield, await a callback with apply, or return.  Nothing keeps it from   *)
(* creating or resuming inside a function, where the caller would have to  *)
(* be saved and the one __main_ctx and current_routine_ are taken from it. *)
(***************************************************************************)
EXTENDS Naturals, Sequences, SequencesExt

CONSTANTS MaxFuncs,      \* bound: functions created
          MaxYields      \* bound: switches back to the creator

ASSUME CoroutineAssumption == MaxFuncs \in Nat /\ MaxYields \in Nat

\* Stack 0 is the thread's own; the others belong to routines.  A context is
\* a stack and how often that stack had gone on when it was saved: jumped to
\* once more, it finds frames that are gone.
Stack == 0 .. MaxFuncs
Func == 1 .. MaxFuncs

VARIABLES running,       \* the stack that runs
          age,           \* per stack: how often it has gone on
          main_ctx,      \* __main_ctx
          ctx_,          \* ctx_ of each routine
          current_ctx,   \* __current_ctx
          current_routine, \* current_routine_
          creater,       \* routine_creater: the routines that are free
          routines,      \* routines made
          func_,         \* the function each routine runs
          handles,       \* resume handles not called yet: [func, routine]
          applied,       \* how far each function is in apply
          is_done,       \* functions whose apply has been called back
          created,       \* functions created
          yields,        \* counted for the bound
          meant,         \* history: who is meant to be running, innermost last
          finished,      \* history: functions that returned, in order
          nested,        \* history: a function created or resumed another
          elsewhere,     \* history: called back by another thread, too late to be seen
          broken         \* history: a jump to frames that are gone

coVars == <<running, age, main_ctx, ctx_, current_ctx, current_routine, creater,
            routines, func_, handles, applied, is_done, created, yields, meant,
            finished, nested, elsewhere, broken>>

Context == [stack : Stack, age : Nat]

CoTypeOK ==
  /\ running \in Stack /\ age \in [Stack -> Nat]
  /\ main_ctx \in Context /\ ctx_ \in [Func -> Context]
  /\ current_ctx \in Stack /\ current_routine \in Stack
  /\ routines \in Stack /\ creater \in Seq(1 .. routines) /\ Len(creater) <= routines
  /\ func_ \in [Func -> 0 .. MaxFuncs]
  /\ handles \subseteq [func : Func, routine : Func]
  /\ applied \in [Func -> {"no", "asked", "tested", "sleeps"}]
  /\ created \in 0 .. MaxFuncs /\ yields \in 0 .. MaxYields
  /\ meant \in Seq(Func) /\ finished \in Seq(Func)
  /\ nested \in BOOLEAN /\ broken \in BOOLEAN
  /\ elsewhere \subseteq Func /\ is_done \subseteq Func

CoInit ==
  /\ running = 0 /\ age = [s \in Stack |-> 0]
  /\ main_ctx = [stack |-> 0, age |-> 0]
  /\ ctx_ = [r \in Func |-> [stack |-> r, age |-> 0]]
  /\ current_ctx = 0 /\ current_routine = 0
  /\ creater = <<>> /\ routines = 0 /\ func_ = [r \in Func |-> 0]
  /\ handles = {} /\ applied = [f \in Func |-> "no"]
  /\ created = 0 /\ yields = 0
  /\ meant = <<>> /\ finished = <<>>
  /\ nested = FALSE /\ elsewhere = {} /\ is_done = {} /\ broken = FALSE

\* The function that runs; 0 is the thread's own code.
Here == IF running = 0 THEN 0 ELSE func_[running]

Runs == ~broken

\* swapcontext, the contexts being those before the switch: the stack that
\* runs is saved, the context to is gone on with.
Saved == [stack |-> running, age |-> age[running]]

GoOn(to) == /\ running' = to.stack
            /\ broken' = (to.age # age[to.stack])
            /\ age' = [age EXCEPT ![to.stack] = @ + 1]

-----------------------------------------------------------------------------
(* routine_swicher, yielder and the end of entry.                          *)

\* routine_swicher: the caller is saved in __main_ctx.
SwitchTo(r) ==
  /\ current_routine' = r /\ current_ctx' = r
  /\ main_ctx' = Saved
  /\ nested' = (nested \/ running # 0)

\* pop_front.
Taken(seq) == Tail(seq)

Create ==
  /\ Runs /\ created < MaxFuncs
  /\ created' = created + 1
  /\ LET r == IF creater = <<>> THEN routines + 1 ELSE Head(creater)
     IN  /\ creater' = IF creater = <<>> THEN creater ELSE Taken(creater)
         /\ routines' = IF creater = <<>> THEN r ELSE routines
         /\ func_' = [func_ EXCEPT ![r] = created']
         /\ SwitchTo(r) /\ GoOn(ctx_[r])
  /\ meant' = Append(meant, created')
  /\ UNCHANGED <<ctx_, handles, applied, is_done, yields, finished, elsewhere>>

\* A resume handle is called, once, by the code that runs.
Resume ==
  /\ Runs
  /\ \E h \in handles :
       /\ handles' = handles \ {h}
       /\ SwitchTo(h.routine) /\ GoOn(ctx_[h.routine])
       /\ meant' = Append(meant, h.func)
       /\ applied' = [applied EXCEPT ![h.func] = IF @ = "sleeps" THEN "no" ELSE @]
  /\ UNCHANGED <<ctx_, creater, routines, func_, is_done, created, yields, finished,
                 elsewhere>>

Mine == [func |-> Here, routine |-> current_routine]

\* yielder: saved in the context of current_routine_, back to __main_ctx.
Yielded == /\ running # 0 /\ yields < MaxYields /\ yields' = yields + 1
           /\ ctx_' = [ctx_ EXCEPT ![current_routine] = Saved]
           /\ current_ctx' = 0
           /\ GoOn(main_ctx)
           /\ meant' = SubSeq(meant, 1, Len(meant) - 1)
           /\ UNCHANGED <<main_ctx, current_routine, creater, routines, func_,
                          is_done, created, finished, nested, elsewhere>>

Yield == /\ Runs /\ running # 0 /\ applied[Here] = "no"
         /\ Yielded /\ handles' = handles \cup {Mine} /\ UNCHANGED applied

\* The function returns: done_, then the switch to __main_ctx, saved in what
\* __current_ctx points to; nothing, when a function it resumed has yielded.
Return_ ==
  /\ Runs /\ running # 0 /\ applied[Here] = "no"
  /\ creater' = Append(creater, running)
  /\ finished' = Append(finished, Here)
  /\ ctx_' = [r \in Func |-> IF r = current_ctx THEN Saved ELSE ctx_[r]]
  /\ running' = main_ctx.stack
  /\ age' = [age EXCEPT ![main_ctx.stack] = @ + 1]
  /\ broken' = (current_ctx = 0 \/ main_ctx.age # age[main_ctx.stack])
  /\ meant' = SubSeq(meant, 1, Len(meant) - 1)
  /\ UNCHANGED <<main_ctx, current_ctx, current_routine, routines, func_, handles,
                 applied, is_done, created, yields, nested, elsewhere>>

-----------------------------------------------------------------------------
(* apply.                                                                  *)

Still == UNCHANGED <<running, age, main_ctx, ctx_, current_ctx, current_routine, creater,
                     routines, func_, handles, created, yields, meant, finished,
                     nested, broken>>

\* async_do is called, and may call back at once.
Ask == /\ Runs /\ running # 0 /\ applied[Here] = "no"
       /\ applied' = [applied EXCEPT ![Here] = "asked"]
       /\ is_done' \in {is_done \ {Here}, is_done \cup {Here}}
       /\ Still /\ UNCHANGED elsewhere

\* A callback on another thread, between async_do and the yield.
DoneElsewhere ==
  /\ Runs /\ running # 0 /\ applied[Here] \in {"asked", "tested"} /\ Here \notin is_done
  /\ is_done' = is_done \cup {Here}
  /\ elsewhere' = IF applied[Here] = "tested" THEN elsewhere \cup {Here} ELSE elsewhere
  /\ Still /\ UNCHANGED applied

\* Mutant: is_done is not looked at.
NotTested(f) == "tested"

\* if (!is_done).
Tested(f) == IF f \in is_done THEN "no" ELSE "tested"

Test_ == /\ Runs /\ running # 0 /\ applied[Here] = "asked"
         /\ applied' = [applied EXCEPT ![Here] = Tested(Here)]
         /\ Still /\ UNCHANGED <<is_done, elsewhere>>

\* yield(resume_func), which the callback finds if it is still to come.
YieldApply ==
  /\ Runs /\ running # 0 /\ applied[Here] = "tested"
  /\ applied' = [applied EXCEPT ![Here] = "sleeps"]
  /\ handles' = IF Here \in is_done THEN handles ELSE handles \cup {Mine}
  /\ Yielded

CoNext == \/ Create \/ Resume \/ Yield \/ Return_
          \/ Ask \/ Test_ \/ YieldApply \/ DoneElsewhere

CoSpec == CoInit /\ [][CoNext]_coVars

-----------------------------------------------------------------------------
(* Properties.                                                             *)

\* Unless a function creates or resumes another, the code that runs is the
\* code meant to run: a yield and a return lead back to the creator or the
\* resumer, a handle to the function that yielded, whatever routine it is on
\* and however often routines have changed hands.
FlatFollows ==
  ~nested => /\ ~broken
             /\ Here = IF meant = <<>> THEN 0 ELSE meant[Len(meant)]

\* No function returns twice, and none is run by two routines.
ReturnsOnce ==
  ~nested => /\ IsInjective(finished)
             /\ \A f \in 1 .. created :
                  \/ \E i \in 1 .. Len(finished) : finished[i] = f
                  \/ f = Here \/ f \in elsewhere
                  \/ \E h \in handles : h.func = f /\ func_[h.routine] = f

\* A function that sleeps in apply has yet to be called back, unless the
\* callback came from another thread between the test and the yield.
SleepsUnanswered ==
  \A f \in 1 .. created : applied[f] = "sleeps" =>
    f \in elsewhere \/ nested \/ \E h \in handles : h.func = f

\* Functions go on where they were, return once, and sleep for a reason.
CoSafe == CoTypeOK /\ FlatFollows /\ ReturnsOnce /\ SleepsUnanswered

=============================================================================
