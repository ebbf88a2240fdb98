-------------------------------- MODULE Linker --------------------------------
(***************************************************************************)
(* The dynamic linker, src/user/linker/ld_main.c: it loads an application's*)
(* libraries depth first, relocates and initialises the objects, and binds *)
(* the functions that threads call through the procedure linkage table     *)
(* lazily, under one mutex and with a cache of symbols.  An object is its  *)
(* name and where it is mapped, a symbol a name with a value in an object. *)
(***************************************************************************)
EXTENDS Integers, SequencesExt, FiniteSets

CONSTANTS
  App, Interp,  \* the application and ld.so itself
  Libs,         \* the names of libraries
  Modes,        \* "interp": started by the kernel for App; "alone": on its own
  Graphs,       \* what objects need, [{App} \cup Libs -> Seq(Libs)]
  Unusable,     \* the sets of files that are missing or no ELF objects
  MaxObjects,   \* MAX_OBJECTS
  Symbols,
  Defines,      \* the symbols of each object
  Eager,        \* its data and BIND_NOW slots, a sequence of symbols
  Lazy,         \* its slots that are bound lazily
  CacheSize,    \* SYMBOL_CACHE_SIZE
  Threads, NoThread,
  Kills         \* whether threads may be killed

ASSUME LinkerAssumption ==
  /\ MaxObjects \in Nat \ {0} /\ CacheSize \in Nat \ {0} /\ NoThread \notin Threads
  /\ App \notin Libs /\ Interp \notin Libs

Objects == {App, Interp} \cup Libs

VARIABLES
  mode, needed, unusable, \* the run's inputs
  phase,      \* "start", "load", "relocate", "init", "run", "failed"
  objects,    \* g_objects, each [name, base]
  next_bias,  \* in strides from LD_LIB_LOAD_BASE
  stack,      \* the calls of ld_load_needed() in progress, [obj, next]
  at,         \* <<object, slot>> of the loops over g_objects
  got,        \* the slots of each object
  cache, cache_next,
  lock,       \* g_ld_lock
  thread,     \* each thread's place in ld_lazy_resolve()
  torn        \* history: a thread was killed between the two stores of a cache entry

inputs == <<mode, needed, unusable>>
loading == <<objects, next_bias, stack>>
binding == <<got, cache, cache_next>>
calls == <<lock, thread, torn>>
vars == <<inputs, phase, loading, at, binding, calls>>

AppBase == -1
InterpBase == -2
NoSymbol == ""
NoAddr == <<>>
Link == <<"link">>   \* a slot with its link-time value
Plt == <<"plt">>     \* a slot that leads to the resolver

Idle == [at |-> "app", obj |-> App, sym |-> NoSymbol, addr |-> NoAddr]

Init ==
  /\ mode \in Modes /\ needed \in Graphs /\ unusable \in Unusable
  /\ phase = "start"
  /\ objects = <<>> /\ next_bias = 0 /\ stack = <<>>
  /\ at = <<1, 1>>
  /\ got = [o \in Objects |-> [s \in Symbols |-> Link]]
  /\ cache = [i \in 1 .. CacheSize |-> [name |-> NoSymbol, addr |-> NoAddr]]
  /\ cache_next = 1
  /\ lock = NoThread
  /\ thread = [t \in Threads |-> Idle]
  /\ torn = FALSE

-----------------------------------------------------------------------------
(* Loading                                                                 *)

Find(name) == {i \in DOMAIN objects : objects[i].name = name}

\* The application is mapped already, or it is loaded from its file.
Start ==
  /\ phase = "start"
  /\ IF App \in unusable THEN phase' = "failed" /\ UNCHANGED <<objects, stack>>
     ELSE /\ phase' = "load"
          /\ objects' = <<[name |-> App, base |-> AppBase]>>
          /\ stack' = <<[obj |-> App, next |-> 1]>>
  /\ UNCHANGED <<inputs, next_bias, at, binding, calls>>

\* The caller's loop in ld_load_needed() goes on, when ld_load_object() has returned.
Continue(frames) ==
  /\ stack' = IF frames = <<>> THEN frames ELSE [frames EXCEPT ![Len(frames)].next = @ + 1]
  /\ next_bias' = IF frames = <<>> THEN next_bias ELSE next_bias + 1

\* ld_load_object(): an object that is there already, no room, a file that is no object.
Skips(name) == Find(name) # {} \/ Len(objects) >= MaxObjects \/ name \in unusable

\* Mutant: a file that is no object keeps its entry.
LoadKeepsSlot(name) ==
  IF Find(name) # {} \/ Len(objects) >= MaxObjects THEN Continue(stack) /\ UNCHANGED objects
  ELSE /\ objects' = Append(objects, [name |-> name, base |-> next_bias])
       /\ IF name \in unusable THEN Continue(stack)
          ELSE stack' = Append(stack, [obj |-> name, next |-> 1]) /\ UNCHANGED next_bias

LoadObject(name) ==
  IF Skips(name) THEN Continue(stack) /\ UNCHANGED objects
  ELSE /\ objects' = Append(objects, [name |-> name, base |-> next_bias])
       /\ stack' = Append(stack, [obj |-> name, next |-> 1])
       /\ UNCHANGED next_bias

\* One round of the loop in ld_load_needed(), or its return.
LoadNeeded ==
  /\ phase = "load" /\ stack # <<>>
  /\ LET frame == Last(stack) IN
     IF frame.next <= Len(needed[frame.obj]) THEN LoadObject(needed[frame.obj][frame.next])
     ELSE Continue(Front(stack)) /\ UNCHANGED objects
  /\ UNCHANGED <<inputs, phase, at, binding, calls>>

\* The interpreter registers itself, if there is room.
Loaded ==
  /\ phase = "load" /\ stack = <<>>
  /\ phase' = "relocate"
  /\ objects' = IF mode = "interp" /\ Len(objects) < MaxObjects
                THEN Append(objects, [name |-> Interp, base |-> InterpBase]) ELSE objects
  /\ UNCHANGED <<inputs, next_bias, stack, at, binding, calls>>

-----------------------------------------------------------------------------
(* Symbols                                                                 *)

\* The first object that defines the symbol, in the order of g_objects.
FullLookup(s) ==
  LET defs == {i \in DOMAIN objects : s \in Defines[objects[i].name]}
  IN IF defs = {} THEN NoAddr ELSE <<objects[Min(defs)].base, s>>

CacheHits(s) == {i \in DOMAIN cache : cache[i].name = s}

\* ld_lookup_symbol_internal()
Lookup(s) == IF CacheHits(s) # {} THEN cache[Min(CacheHits(s))].addr ELSE FullLookup(s)

NextEntry == (cache_next % CacheSize) + 1

\* What a lookup leaves in the cache.
Cached(s) ==
  IF CacheHits(s) # {} \/ FullLookup(s) = NoAddr THEN UNCHANGED <<cache, cache_next>>
  ELSE /\ cache' = [cache EXCEPT ![cache_next] = [name |-> s, addr |-> FullLookup(s)]]
       /\ cache_next' = NextEntry

-----------------------------------------------------------------------------
(* Relocation and initialisation                                           *)

\* ld_relocate_object(): data and BIND_NOW slots are looked up, and left as they are
\* when nothing defines them,
RelocateEager ==
  /\ phase = "relocate" /\ at[1] <= Len(objects)
  /\ LET o == objects[at[1]].name IN
     /\ at[2] <= Len(Eager[o])
     /\ LET s == Eager[o][at[2]] IN
        /\ got' = IF Lookup(s) = NoAddr THEN got ELSE [got EXCEPT ![o][s] = Lookup(s)]
        /\ Cached(s)
  /\ at' = <<at[1], at[2] + 1>>
  /\ UNCHANGED <<inputs, phase, loading, calls>>

\* and the other slots are moved with the object, to its own linkage table.
RelocateLazy ==
  /\ phase = "relocate" /\ at[1] <= Len(objects)
  /\ LET o == objects[at[1]].name IN
     /\ at[2] > Len(Eager[o])
     /\ got' = [got EXCEPT ![o] = [s \in Symbols |-> IF s \in Lazy[o] THEN Plt ELSE @[s]]]
  /\ at' = <<at[1] + 1, 1>>
  /\ UNCHANGED <<inputs, phase, loading, cache, cache_next, calls>>

Relocated ==
  /\ phase = "relocate" /\ at[1] > Len(objects)
  /\ phase' = "init"
  /\ at' = <<Len(objects), 1>>
  /\ UNCHANGED <<inputs, loading, binding, calls>>

\* ld_call_init(), from the last object to the first.
InitStep ==
  /\ phase = "init" /\ at[1] > 0
  /\ at' = <<at[1] - 1, 1>>
  /\ UNCHANGED <<inputs, phase, loading, binding, calls>>

Enter ==
  /\ phase = "init" /\ at[1] = 0
  /\ phase' = "run"
  /\ UNCHANGED <<inputs, loading, at, binding, calls>>

-----------------------------------------------------------------------------
(* Calls through the linkage table, by the program's threads               *)

At(t, place) == thread[t].at = place
Move(t, place) == [thread EXCEPT ![t].at = place]

\* A call jumps through its slot, to the function or to ld_plt_resolver.
Call(t, o, s) ==
  /\ phase = "run" /\ At(t, "app")
  /\ o \in {objects[i].name : i \in DOMAIN objects} /\ s \in Lazy[o]
  /\ thread' = [thread EXCEPT ![t] = IF got[o][s] = Plt
                  THEN [at |-> "lock", obj |-> o, sym |-> s, addr |-> NoAddr]
                  ELSE [at |-> "jump", obj |-> o, sym |-> s, addr |-> got[o][s]]]
  /\ UNCHANGED <<inputs, phase, loading, at, binding, lock, torn>>

Lock(t) == At(t, "lock") /\ lock = NoThread /\ lock' = t /\ thread' = Move(t, "cache")

\* The cache answers, or the objects do: then an entry of the cache is replaced, its name
\* first and its address next.
Search(t) ==
  /\ At(t, "cache")
  /\ LET s == thread[t].sym IN
     thread' = [thread EXCEPT ![t].addr = Lookup(s),
                  ![t].at = CASE Lookup(s) = NoAddr -> "missing"
                              [] CacheHits(s) # {} -> "patch"
                              [] OTHER -> "name"]
  /\ UNCHANGED <<lock, binding>>

CacheName(t) ==
  /\ At(t, "name")
  /\ cache' = [cache EXCEPT ![cache_next].name = thread[t].sym]
  /\ thread' = Move(t, "address")
  /\ UNCHANGED <<lock, got, cache_next>>

CacheAddr(t) ==
  /\ At(t, "address")
  /\ cache' = [cache EXCEPT ![cache_next].addr = thread[t].addr]
  /\ cache_next' = NextEntry
  /\ thread' = Move(t, "patch")
  /\ UNCHANGED <<lock, got>>

\* Mutant: the lock is kept.
PatchKeepsLock(t) ==
  /\ At(t, "patch")
  /\ got' = [got EXCEPT ![thread[t].obj][thread[t].sym] = thread[t].addr]
  /\ thread' = Move(t, "jump")
  /\ UNCHANGED <<lock, cache, cache_next>>

\* The slot gets the address, and the lock is released.
Patch(t) ==
  /\ At(t, "patch")
  /\ got' = [got EXCEPT ![thread[t].obj][thread[t].sym] = thread[t].addr]
  /\ lock' = IF lock = t THEN NoThread ELSE lock
  /\ thread' = Move(t, "jump")
  /\ UNCHANGED <<cache, cache_next>>

Jump(t) == At(t, "jump") /\ thread' = [thread EXCEPT ![t] = Idle] /\ UNCHANGED <<lock, binding>>

\* Mutant: the resolver returns to the caller.
MissingReturns(t) ==
  /\ At(t, "missing")
  /\ thread' = Move(t, "jump")
  /\ lock' = IF lock = t THEN NoThread ELSE lock
  /\ UNCHANGED binding

\* An undefined symbol ends the thread, with the lock held.
Missing(t) == At(t, "missing") /\ thread' = Move(t, "dead") /\ UNCHANGED <<lock, binding>>

\* The kernel's reaper releases the mutex of a dead thread (mutex_detach_task()).
Detach(t) == At(t, "dead") /\ lock = t /\ lock' = NoThread /\ UNCHANGED <<thread, binding>>

Kill(t) ==
  /\ Kills /\ ~At(t, "dead")
  /\ thread' = Move(t, "dead")
  /\ torn' = (torn \/ At(t, "address"))
  /\ UNCHANGED <<lock, binding>>

Resolve(t) ==
  /\ \/ Lock(t) /\ UNCHANGED binding
     \/ Search(t) \/ CacheName(t) \/ CacheAddr(t) \/ Patch(t) \/ Jump(t) \/ Missing(t) \/ Detach(t)
  /\ UNCHANGED <<inputs, phase, loading, at, torn>>

-----------------------------------------------------------------------------
(* The specification                                                       *)

Prepare == Start \/ LoadNeeded \/ Loaded \/ RelocateEager \/ RelocateLazy \/ Relocated \/ InitStep \/ Enter

Next ==
  \/ Prepare
  \/ \E t \in Threads : \/ \E o \in Objects, s \in Symbols : Call(t, o, s)
                        \/ Resolve(t)
                        \/ Kill(t) /\ UNCHANGED <<inputs, phase, loading, at>>

Spec == Init /\ [][Next]_vars

\* The scheduler runs every thread, and the mutex passes on.
FairSpec == Spec /\ WF_vars(Prepare) /\ \A t \in Threads : WF_vars(Resolve(t))

-----------------------------------------------------------------------------
(* Properties                                                              *)

Names == {objects[i].name : i \in DOMAIN objects}

\* The tables stay within their bounds, and one thread at most is in the resolver.
TypeOK ==
  /\ phase \in {"start", "load", "relocate", "init", "run", "failed"}
  /\ Len(objects) <= MaxObjects /\ Names \subseteq Objects
  /\ stack \in Seq([obj : Objects, next : Nat])
  /\ DOMAIN cache = 1 .. CacheSize /\ cache_next \in DOMAIN cache
  /\ lock \in Threads \cup {NoThread}
  /\ \A t \in Threads : thread[t].at \in {"cache", "name", "address", "patch", "missing"} => lock = t

\* What the application needs, directly or through what it needs.
NeedsOf(S) == S \cup UNION {{lib \in ToSet(needed[o]) : lib \notin unusable} : o \in S}
RECURSIVE Closure(_)
Closure(S) == IF NeedsOf(S) = S THEN S ELSE Closure(NeedsOf(S))

\* "Load every DT_NEEDED dependency of an object": however the objects need each other, in
\* circles too, none is loaded twice, and when loading has ended with room to spare, exactly
\* the usable objects that the application needs are there; files that could not be loaded
\* have left nothing behind.
ClosureLoaded ==
  /\ \A i, j \in DOMAIN objects : objects[i].name = objects[j].name => i = j
  /\ phase \in {"relocate", "init", "run"} =>
    /\ Names \subseteq Closure({App}) \cup {Interp}
    /\ Len(objects) < MaxObjects => Closure({App}) \subseteq Names

\* A call reaches the first definition of its symbol in the order of the objects, whatever
\* other threads resolve or die at the same time and whatever the cache has dropped; only a
\* call of an undefined symbol ends in the resolver.  The one exception is an entry of the
\* cache that a killed thread has left with its new name and its old address.
CallsRight ==
  ~torn => \A t \in Threads :
    /\ At(t, "jump") => thread[t].addr # NoAddr /\ thread[t].addr = FullLookup(thread[t].sym)
    /\ At(t, "missing") => FullLookup(thread[t].sym) = NoAddr

\* Loading comes to an end for every graph of needs, and a thread that enters the resolver
\* leaves it, although others may have died in there.
LinkerEnds ==
  /\ <>(phase \in {"run", "failed"})
  /\ \A t \in Threads : At(t, "lock") ~> At(t, "app") \/ At(t, "dead")
=============================================================================
