----------------------------- MODULE MemContext -----------------------------
(***************************************************************************)
(* Memory contexts (common/memContext.c) and error handling                *)
(* (common/error.c, the macros of common/error.h and common/memContext.h). *)
(*                                                                         *)
(* Every allocation of the program lives in a context of a tree.  A stack  *)
(* holds the contexts the program switched to and the new ones it has not  *)
(* kept yet.  An error is a longjmp to the innermost TRY, whose handler    *)
(* cleans the stack: memContextClean() frees what was not kept and         *)
(* restores the current context.                                           *)
(*                                                                         *)
(* `blocks' is the nesting of BEGIN/END and TRY macros the program is in:  *)
(* C's block structure, which the longjmp unwinds.  The contexts a program *)
(* frees or moves are the ones it may: kept, and holding none of the       *)
(* stack's.  The code holds two more disciplines, assumed here: a free     *)
(* callback that can fail belongs to a kept context, and a CATCH or        *)
(* FINALLY block swallows no second error.                                 *)
(***************************************************************************)
EXTENDS Integers, FiniteSets, SequencesExt

CONSTANTS
    MaxContext,     \* contexts malloc() has room for
    MaxAlloc,       \* allocations malloc() has room for
    MaxTry,         \* ERROR_TRY_MAX
    MaxBlock,       \* nesting of the program's blocks
    MaxSlot,        \* slots of a context's child list; a slot left by memContextMove() is not always found again
    InitialSize     \* MEM_CONTEXT_INITIAL_SIZE

ASSUME MemBounds == {MaxContext, MaxAlloc, MaxTry, MaxBlock, MaxSlot, InitialSize} \subseteq Nat \ {0}

VARIABLES
    mem,            \* the contexts and their lists
    mstack,         \* memContextStack up to memContextMaxStackIdx
    current,        \* memContextCurrentStackIdx
    try,            \* errorContext.tryList
    error,          \* errorContext.error
    blocks,         \* the program's open blocks
    mode,           \* "run", "jump" (a TRY's loop continues) or "exit"
    called          \* the free callbacks the last step ran, in order

memVars == <<mem, mstack, current, try, error, blocks, mode, called>>

contextTop == 0
NullContext == -1
MemContexts == contextTop..MaxContext
Allocs == 1..MaxAlloc

(***************************************************************************)
(* The heap.  "none" is memory that is not a context: not allocated yet,   *)
(* or released with the parent's child list.                               *)
(***************************************************************************)
NoContext == [state |-> "none", parent |-> NullContext, parentIdx |-> 0, child |-> <<>>, childFreeIdx |-> 1,
              alloc |-> {}, callback |-> FALSE, kept |-> FALSE]

Nulls(n) == [i \in 1..n |-> NullContext]

FirstFrom(list, from, P(_)) ==
    CHOOSE i \in from..(Len(list) + 1) :
        /\ i <= Len(list) => P(list[i])
        /\ \A j \in from..(i - 1) : ~P(list[j])

\* The list, doubled when the index is past its end
Room(list, idx) == IF idx <= Len(list) THEN list ELSE list \o Nulls(IF list = <<>> THEN InitialSize ELSE Len(list))

WithIndex(h, p, idx) == [h EXCEPT ![p].child = Room(@, idx), ![p].childFreeIdx = idx]

memContextNewIndex(h, p, allowFree) ==
    WithIndex(h, p, FirstFrom(h[p].child, h[p].childFreeIdx,
                              LAMBDA c : c = NullContext \/ (allowFree /\ h[c].state = "free")))

Unallocated(h) == {c \in MemContexts : h[c].state = "none"}

\* The structs a new context can get at the index found: the free one there, or a malloc
StructsAt(h, slot) ==
    IF slot # NullContext THEN {slot}
    ELSE {c \in Unallocated(h) : \A d \in Unallocated(h) : c <= d}
NewStructs(h, list) == {c \in StructsAt(h, list.child[list.childFreeIdx]) : Len(list.child) <= MaxSlot}

NewAt(h, p, idx, this) ==
    [h EXCEPT ![this] = [NoContext EXCEPT !.state = "active", !.parent = p, !.parentIdx = idx],
              ![p].child[idx] = this, ![p].childFreeIdx = idx + 1]

\* The heaps with a new context of p, and the context; none when there is no room
NewIn(g, p) == {[mem |-> NewAt(g, p, g[p].childFreeIdx, c), context |-> c] : c \in NewStructs(g, g[p])}
memContextNew(h, p) == NewIn(memContextNewIndex(h, p, TRUE), p)

MoveTo(g, this, parentNew) ==
    [g EXCEPT ![parentNew].child[g[parentNew].childFreeIdx] = this, ![this].parent = parentNew]

Cleared(h, this, old) ==
    [h EXCEPT ![old].child = [i \in DOMAIN @ |-> IF @[i] = this THEN NullContext ELSE @[i]]]

memContextMove(h, this, parentNew) ==
    IF h[this].parent = parentNew THEN h
    ELSE MoveTo(memContextNewIndex(Cleared(h, this, h[this].parent), parentNew, FALSE), this, parentNew)

-----------------------------------------------------------------------------
(***************************************************************************)
(* memContextFree(): the children first, then the callback (which may      *)
(* fail: `failing'), then the memory, whether or not it failed.  `now' is  *)
(* the current context.  Result: the heap, the callbacks run, the error.   *)
(***************************************************************************)
FreeResult(h, ran, err) == [mem |-> h, ran |-> ran, err |-> err]

\* A child whose state is not active is not freed again
Freeable(h, c) == c # NullContext /\ h[c].state = "active"

CallbackFirst(inner, own) == own \o inner

\* The order of the callbacks: a context's own runs when there are no children left
CallbackLast(inner, own) == inner \o own

\* The memory of a context and its place in the parent
Release(h, this) ==
    LET freed == [c \in MemContexts |->
                    IF c \in Range(h[this].child) THEN NoContext
                    ELSE IF c = this THEN [NoContext EXCEPT !.state = "free"] ELSE h[c]]
        parent == h[this].parent
    IN [freed EXCEPT ![parent].childFreeIdx = IF h[this].parentIdx < @ THEN h[this].parentIdx ELSE @]

\* The context itself, after its children
FreeOwn(inner, this, callback, failing) ==
    IF inner.err # "none" THEN inner
    ELSE FreeResult(Release(inner.mem, this),
                    CallbackLast(inner.ran, IF callback THEN <<this>> ELSE <<>>),
                    IF callback /\ this \in failing THEN "callback" ELSE "none")

Joined(ran, rest) == [rest EXCEPT !.ran = ran \o @]

RECURSIVE memContextFree(_, _, _, _), FreeChildren(_, _, _, _, _), FreeRest(_, _, _, _, _)
memContextFree(h, this, now, failing) ==
    CASE h[this].state = "freeing" -> FreeResult(h, <<>>, "none")
      [] h[this].state # "freeing" /\ this = now -> FreeResult(h, <<>>, "assert")
      [] h[this].state \in {"free", "none"} /\ this # now -> FreeResult(h, <<>>, "assert")
      [] h[this].state = "active" /\ this # now ->
           FreeOwn(FreeChildren(h, this, 1, now, failing), this, h[this].callback, failing)

FreeChildren(h, this, i, now, failing) ==
    IF i > Len(h[this].child) THEN FreeResult(h, <<>>, "none")
    ELSE FreeRest(IF Freeable(h, h[this].child[i]) THEN memContextFree(h, h[this].child[i], now, failing)
                  ELSE FreeResult(h, <<>>, "none"),
                  this, i, now, failing)

\* An error of a child's callback ends the loop
FreeRest(first, this, i, now, failing) ==
    IF first.err # "none" THEN first
    ELSE Joined(first.ran, FreeChildren(first.mem, this, i + 1, now, failing))

-----------------------------------------------------------------------------
(***************************************************************************)
(* The context stack                                                       *)
(***************************************************************************)
StackEntry(c, type, depth) == [context |-> c, type |-> type, depth |-> depth]

\* The nearest entry below i the program can allocate in
PriorSwitch(s, i) == CHOOSE j \in 1..(i - 1) : s[j].type = "switch" /\ \A k \in (j + 1)..(i - 1) : s[k].type = "new"

memContextCurrent == mstack[current].context
memContextPrior == mstack[PriorSwitch(mstack, current)].context

\* memContextClean(): everything pushed since the try began
Cleaned(h, s, at, ran, err) == [mem |-> h, stack |-> s, current |-> at, ran |-> ran, err |-> err]
RECURSIVE memContextClean(_, _, _, _, _), CleanRest(_, _, _, _, _)
memContextClean(h, s, at, depth, failing) ==
    IF Last(s).depth < depth THEN Cleaned(h, s, at, <<>>, "none")
    ELSE IF Last(s).type = "new"
    THEN CleanRest(memContextFree(h, Last(s).context, s[at].context, failing), s, at, depth, failing)
    ELSE memContextClean(h, Front(s), PriorSwitch(s, at), depth, failing)

\* An error of a callback leaves the loop with the entry still on the stack
CleanRest(freed, s, at, depth, failing) ==
    IF freed.err # "none" THEN Cleaned(freed.mem, s, at, freed.ran, freed.err)
    ELSE Joined(freed.ran, memContextClean(freed.mem, Front(s), at, depth, failing))

\* The callbacks that may fail: a socket, a file or a process of a kept object
MayFail == {c \in MemContexts : mem[c].callback /\ mem[c].kept}

\* What memContextFree() of c can do now
Freed(c, now) == {memContextFree(mem, c, now, failing) : failing \in SUBSET MayFail}

-----------------------------------------------------------------------------
(***************************************************************************)
(* Errors.  errorInternalPropagate() with t the tries that remain: to the  *)
(* innermost one, whose block the program is then in, or out of main().    *)
(***************************************************************************)
TryBlock(bs, n) == CHOOSE i \in DOMAIN bs : /\ bs[i].kind = "try"
                                            /\ Cardinality({j \in 1..i : bs[j].kind = "try"}) = n

errorInternalPropagate(t) ==
    IF t = <<>>
    THEN /\ mode' = "exit"
         /\ UNCHANGED <<try, blocks>>
    ELSE /\ mode' = "jump"
         /\ try' = [t EXCEPT ![Len(t)].uncaught = TRUE]
         /\ blocks' = SubSeq(blocks, 1, TryBlock(blocks, Len(t)))

errorInternalThrow(type) == error' = type /\ errorInternalPropagate(try)

\* Whether the handler forgets an error: a catch ended and did not rethrow
Forgets == Last(try).state = "catch" /\ ~Last(try).uncaught

Successor(state, uncaught) == CASE state = "begin" -> "try"
                                [] state = "try" -> IF uncaught THEN "catch" ELSE "final"
                                [] state = "catch" -> "final"
                                [] state = "final" -> "end"

\* The stack and the contexts when a try's loop continues: cleaned after its body
OnLeaving ==
    IF Last(try).state = "try"
    THEN {memContextClean(mem, mstack, current, Len(try), failing) : failing \in SUBSET MayFail}
    ELSE {Cleaned(mem, mstack, current, <<>>, "none")}

errorInternalProcess ==
    \E clean \in OnLeaving :
      LET last == Last(try)
          next == Successor(last.state, last.uncaught)
      IN /\ mem' = clean.mem /\ mstack' = clean.stack /\ current' = clean.current /\ called' = clean.ran
         /\ \/ /\ clean.err # "none"
               /\ errorInternalThrow(clean.err)
            \/ /\ clean.err = "none"
               /\ next # "end"
               /\ error' = IF Forgets THEN "none" ELSE error
               /\ try' = [try EXCEPT ![Len(try)].state = next]
               /\ mode' = "run"
               /\ UNCHANGED blocks
            \/ /\ clean.err = "none"
               /\ next = "end"
               /\ error' = IF Forgets THEN "none" ELSE error
               /\ IF last.uncaught
                  THEN errorInternalPropagate(Front(try))
                  ELSE /\ mode' = "run"
                       /\ try' = Front(try)
                       /\ blocks' = Front(blocks)

-----------------------------------------------------------------------------
(***************************************************************************)
(* The program.  It runs in the innermost block; InTry says in which part  *)
(* of a TRY it is when that block is one.  Nothing runs in a catch that    *)
(* has not taken the error.                                                *)
(***************************************************************************)
InBlock(kind) == blocks # <<>> /\ Last(blocks).kind = kind
InTry(state) == InBlock("try") /\ Last(try).state = state
Running == mode = "run" /\ ~(InTry("catch") /\ Last(try).uncaught)

Block(kind, c) == [kind |-> kind, context |-> c, catch |-> FALSE]
CanOpen == Running /\ Len(blocks) < MaxBlock

\* memContextNew() and memContextSwitch(): MEM_CONTEXT_NEW_BEGIN, MEM_CONTEXT_TEMP_BEGIN
NewBegin(kind) ==
    /\ CanOpen
    /\ \E new \in memContextNew(mem, memContextCurrent) :
         /\ mem' = new.mem
         /\ mstack' = mstack \o <<StackEntry(new.context, "new", Len(try)), StackEntry(new.context, "switch", Len(try))>>
         /\ blocks' = Append(blocks, Block(kind, new.context))
    /\ current' = Len(mstack) + 2
    /\ called' = <<>>
    /\ UNCHANGED <<try, error, mode>>

\* memContextSwitchBack() and memContextKeep()
NewEnd ==
    /\ Running
    /\ InBlock("new")
    /\ mem' = [mem EXCEPT ![mstack[Len(mstack) - 1].context].kept = TRUE]
    /\ mstack' = Front(Front(mstack))
    /\ current' = PriorSwitch(mstack, current)
    /\ blocks' = Front(blocks)
    /\ called' = <<>>
    /\ UNCHANGED <<try, error, mode>>

\* memContextSwitchBack() and memContextDiscard(), which keeps the entry if an object's callback fails
TempEnd ==
    /\ Running
    /\ InBlock("temp")
    /\ current' = PriorSwitch(mstack, current)
    /\ \E freed \in Freed(mstack[Len(mstack) - 1].context, mstack[current'].context) :
         /\ mem' = freed.mem
         /\ called' = freed.ran
         /\ IF freed.err # "none"
            THEN /\ mstack' = Front(mstack)
                 /\ errorInternalThrow(freed.err)
            ELSE /\ mstack' = Front(Front(mstack))
                 /\ blocks' = Front(blocks)
                 /\ UNCHANGED <<try, error, mode>>

\* MEM_CONTEXT_TEMP_RESET: the temporary context is discarded and made again
TempReset ==
    /\ Running
    /\ InBlock("temp")
    /\ \E prior \in {PriorSwitch(mstack, current)} :
       \E freed \in Freed(mstack[Len(mstack) - 1].context, mstack[prior].context) :
         /\ called' = freed.ran
         /\ IF freed.err # "none"
            THEN /\ mem' = freed.mem
                 /\ mstack' = Front(mstack)
                 /\ current' = prior
                 /\ errorInternalThrow(freed.err)
            ELSE /\ \E new \in memContextNew(freed.mem, mstack[prior].context) :
                      /\ mem' = new.mem
                      /\ mstack' = Front(Front(mstack))
                                    \o <<StackEntry(new.context, "new", Len(try)), StackEntry(new.context, "switch", Len(try))>>
                      /\ blocks' = Append(Front(blocks), Block("temp", new.context))
                 /\ UNCHANGED <<current, try, error, mode>>

\* Whether c is d or a context above it
RECURSIVE Above(_, _)
Above(c, d) == c = d \/ (d # contextTop /\ mem[d].parent # NullContext /\ Above(c, mem[d].parent))

\* What the program holds: a kept object that is not in use by an open block
Held(c) == /\ c # contextTop
           /\ mem[c].state = "active"
           /\ mem[c].kept
           /\ \A i \in DOMAIN mstack : ~Above(c, mstack[i].context)

\* MEM_CONTEXT_BEGIN of an object's context, MEM_CONTEXT_PRIOR_BEGIN
Switch(c) ==
    /\ CanOpen
    /\ Held(c) \/ (current > 1 /\ c = memContextPrior)
    /\ mstack' = Append(mstack, StackEntry(c, "switch", Len(try)))
    /\ current' = Len(mstack) + 1
    /\ blocks' = Append(blocks, Block("switch", c))
    /\ called' = <<>>
    /\ UNCHANGED <<mem, try, error, mode>>

\* MEM_CONTEXT_END
memContextSwitchBack ==
    /\ Running
    /\ InBlock("switch")
    /\ mstack' = Front(mstack)
    /\ current' = PriorSwitch(mstack, current)
    /\ blocks' = Front(blocks)
    /\ called' = <<>>
    /\ UNCHANGED <<mem, try, error, mode>>

\* An object's free function
objFree(c) ==
    /\ Running
    /\ Held(c)
    /\ \E freed \in Freed(c, memContextCurrent) :
         /\ mem' = freed.mem
         /\ called' = freed.ran
         /\ IF freed.err # "none"
            THEN errorInternalThrow(freed.err)
            ELSE UNCHANGED <<error, try, blocks, mode>>
    /\ UNCHANGED <<mstack, current>>

\* An object moved to the context of the caller
objMove(c) ==
    /\ Running
    /\ Held(c)
    /\ current > 1
    /\ mem' = memContextMove(mem, c, memContextPrior)
    /\ Len(mem'[memContextPrior].child) <= MaxSlot
    /\ called' = <<>>
    /\ UNCHANGED <<mstack, current, try, error, blocks, mode>>

\* In the constructor of an object, or later for an object it holds
memContextCallbackSet(c) ==
    /\ Running
    /\ Held(c) \/ (InBlock("new") /\ c = memContextCurrent)
    /\ ~mem[c].callback
    /\ mem' = [mem EXCEPT ![c].callback = TRUE]
    /\ called' = <<>>
    /\ UNCHANGED <<mstack, current, try, error, blocks, mode>>

memContextCallbackClear(c) ==
    /\ Running
    /\ Held(c)
    /\ mem[c].callback
    /\ mem' = [mem EXCEPT ![c].callback = FALSE]
    /\ called' = <<>>
    /\ UNCHANGED <<mstack, current, try, error, blocks, mode>>

Live == UNION {mem[c].alloc : c \in MemContexts}

\* memNew() in the current context
memContextAllocNew(a) ==
    /\ Running
    /\ a \notin Live
    /\ \A b \in 1..(a - 1) : b \in Live
    /\ mem' = [mem EXCEPT ![memContextCurrent].alloc = @ \cup {a}]
    /\ called' = <<>>
    /\ UNCHANGED <<mstack, current, try, error, blocks, mode>>

\* memFree() of an allocation of the current context
memFree(a) ==
    /\ Running
    /\ a \in mem[memContextCurrent].alloc
    /\ mem' = [mem EXCEPT ![memContextCurrent].alloc = @ \ {a}]
    /\ called' = <<>>
    /\ UNCHANGED <<mstack, current, try, error, blocks, mode>>

\* TRY_BEGIN; `catch': whether it has a CATCH for the errors thrown in it
errorInternalTry(catch) ==
    /\ CanOpen
    /\ try # <<>> => Last(try).state = "try"
    /\ called' = <<>>
    /\ IF Len(try) >= MaxTry
       THEN errorInternalThrow("assert")
       ELSE /\ try' = Append(try, [state |-> "begin", uncaught |-> FALSE])
            /\ blocks' = Append(blocks, [Block("try", contextTop) EXCEPT !.catch = catch])
            /\ mode' = "jump"
            /\ UNCHANGED error
    /\ UNCHANGED <<mem, mstack, current>>

\* The end of the body, of a catch, of the final block; also a catch that is not there
TryNext ==
    /\ mode = "run"
    /\ InBlock("try")
    /\ Running \/ ~Last(blocks).catch
    /\ errorInternalProcess

\* The CATCH that takes the error: its block begins
errorInternalStateCatch ==
    /\ mode = "run"
    /\ InTry("catch")
    /\ Last(blocks).catch
    /\ Last(try).uncaught
    /\ try' = [try EXCEPT ![Len(try)].uncaught = FALSE]
    /\ called' = <<>>
    /\ UNCHANGED <<mem, mstack, current, error, blocks, mode>>

\* THROW, and RETHROW in a catch
ErrorThrow ==
    /\ Running
    /\ errorInternalThrow(IF InTry("catch") THEN error ELSE "thrown")
    /\ called' = <<>>
    /\ UNCHANGED <<mem, mstack, current>>

Jump ==
    /\ mode = "jump"
    /\ errorInternalProcess

-----------------------------------------------------------------------------
MemInit ==
    /\ mem = [c \in MemContexts |-> IF c = contextTop THEN [NoContext EXCEPT !.state = "active", !.kept = TRUE] ELSE NoContext]
    /\ mstack = <<StackEntry(contextTop, "switch", 0)>>
    /\ current = 1
    /\ try = <<>>
    /\ error = "none"
    /\ blocks = <<>>
    /\ mode = "run"
    /\ called = <<>>

MemNext ==
    \/ \E kind \in {"new", "temp"} : NewBegin(kind)
    \/ NewEnd \/ TempEnd \/ TempReset
    \/ \E c \in MemContexts : Switch(c)
    \/ memContextSwitchBack
    \/ \E c \in MemContexts : objFree(c)
    \/ \E c \in MemContexts : objMove(c)
    \/ \E c \in MemContexts : memContextCallbackSet(c)
    \/ \E c \in MemContexts : memContextCallbackClear(c)
    \/ \E a \in Allocs : memContextAllocNew(a)
    \/ \E a \in Allocs : memFree(a)
    \/ \E catch \in BOOLEAN : errorInternalTry(catch)
    \/ TryNext
    \/ errorInternalStateCatch
    \/ ErrorThrow
    \/ Jump

-----------------------------------------------------------------------------
(***************************************************************************)
(* Properties                                                              *)
(***************************************************************************)
\* The tree and the lists agree: a context in use has exactly one place, in an active context;
\* a slot index that is stale after memContextMove() never gives a place away twice
MemTree ==
    /\ \A c \in MemContexts \ {contextTop} : mem[c].state = "active" => mem[mem[c].parent].state = "active"
    /\ \A c \in MemContexts \ {contextTop}, p \in MemContexts : mem[c].state = "active" =>
         Cardinality({i \in DOMAIN mem[p].child : mem[p].child[i] = c}) = IF p = mem[c].parent THEN 1 ELSE 0
    /\ \A c \in MemContexts : mem[c].state # "active" => mem[c].alloc = {} /\ mem[c].child = <<>>

\* What the open blocks put on the context stack
RECURSIVE Pushed(_)
Pushed(bs) ==
    IF bs = <<>> THEN <<contextTop>>
    ELSE Pushed(Front(bs)) \o (CASE Last(bs).kind \in {"new", "temp"} -> <<Last(bs).context, Last(bs).context>>
                                 [] Last(bs).kind = "switch" -> <<Last(bs).context>>
                                 [] Last(bs).kind = "try" -> <<>>)

\* memContext.h: on an error the context system resets "the current mem context to whatever it was at the beginning
\* of the nearest try block".  Wherever a body or a catch runs, the stack holds exactly what the open blocks put
\* there, the current context is the innermost one switched to, and every context of the stack is alive
Restored ==
    (Running /\ \A i \in DOMAIN try : try[i].state \in {"try", "catch"}) =>
       /\ [i \in DOMAIN mstack |-> mstack[i].context] = Pushed(blocks)
       /\ current = Len(mstack)
       /\ \A i \in DOMAIN mstack : mem[mstack[i].context].state = "active"

\* A context that was not kept is on the stack, to be freed by the next error or at the end of its block: none leaks
NothingLeaks ==
    \A c \in MemContexts : (mem[c].state = "active" /\ ~mem[c].kept) =>
       \E i \in DOMAIN mstack : mstack[i].context = c /\ mstack[i].type = "new"

\* An error that is on its way is known until a catch takes it
ErrorKept == (\E i \in DOMAIN try : try[i].uncaught) \/ mode = "exit" => error # "none"

\* A context freed in any way runs its callback exactly once, in the step that frees it and after the callbacks of
\* the contexts under it; nothing else runs one
CallbacksRun ==
    [][/\ \A c \in MemContexts :
            Cardinality({i \in DOMAIN called' : called'[i] = c}) =
               IF mem[c].state = "active" /\ mem[c].callback /\ mem'[c].state # "active" THEN 1 ELSE 0
       /\ \A i, j \in DOMAIN called' : i < j => ~Above(called'[i], called'[j])]_memVars

Active == {c \in MemContexts : mem[c].state = "active"}

\* An error always arrives, whatever callbacks fail while it is cleaned up after ("Finish cleanup even if the callback
\* fails"): a step of the unwinding that does not reach a block of the program ends a try or frees a context
Unwinds ==
    [][mode = "jump" /\ mode' = "jump" => Len(try') < Len(try) \/ (Active' \subseteq Active /\ Active' # Active)]_memVars

\* Whatever is thrown wherever: the contexts stay a tree, a block gives back the
\* context it found, nothing that was not kept outlives its block, no error is
\* forgotten, and every context that goes away runs its callback and the ones
\* below it first (memContextClean(), memContextFree()).
MemDiscipline ==
    /\ [](MemTree /\ Restored /\ NothingLeaks /\ ErrorKept)
    /\ CallbacksRun /\ Unwinds
=============================================================================
