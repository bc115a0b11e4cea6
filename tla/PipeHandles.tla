------------------------------ MODULE PipeHandles ------------------------------
(***************************************************************************)
(* Who owns the descriptors of pipes: the objects basic_pipe and           *)
(* async_pipe of version 1, on POSIX and on Windows, as they are           *)
(* constructed, copied, moved, assigned, converted, closed and destroyed.  *)
(* A descriptor (a HANDLE on Windows) is a number that can be handed out   *)
(* again once it is closed; an object has one for its source and one for   *)
(* its sink, -1 if it has none.                                            *)
(***************************************************************************)
EXTENDS Integers, FiniteSets, FiniteSetsExt

CONSTANTS
  Objects,     \* the variables of the program
  Types,       \* [Objects -> {"basic", "async"}]
  Systems,     \* subset of {"posix", "windows"}
  MaxOpen      \* bound: the limit of open descriptors

Numbers == 1..MaxOpen
Slots   == {"source", "sink"}
None    == [s \in Slots |-> -1]

VARIABLES
  system,
  alive,   \* the objects that are constructed
  has,     \* [Objects -> [Slots -> a descriptor or -1]]
  open,    \* the descriptors that are open
  risks    \* history: what the program did that the classes do not support

handleVars == <<system, alive, has, open, risks>>

Owned(o)   == {has[o][s] : s \in Slots} \ {-1}
FreeFds    == Numbers \ open
NewFds(f)  == {f[s] : s \in Slots} \ {-1}
IsBasic(o) == Types[o] = "basic"

HandleInit ==
  /\ system \in Systems
  /\ alive = {} /\ has = [o \in Objects |-> None]
  /\ open = {} /\ risks = {}

\* o has f, and the descriptors in fresh were opened and those in closing closed.
Take(o, f, fresh, closing) ==
  /\ has' = [has EXCEPT ![o] = f]
  /\ open' = (open \ closing) \cup fresh
Risk(kinds) == risks' = risks \cup kinds
Throws(left) ==   \* an exception, after which nobody owns the descriptors in left
  /\ open' = open \cup left
  /\ Risk({"exception"})
  /\ UNCHANGED <<system, alive, has>>

-------------------------------------------------------------------------------
(***************************************************************************)
(* The duplicates of the handles of p get the lowest numbers.  With too    *)
(* few numbers left dup throws, on POSIX, and the first of two is left     *)
(* open.  (Handles do not run out on Windows.)                             *)
(***************************************************************************)
LeastOf(S) == IF S = {} THEN 0 ELSE Min(S)
Copies(p) ==
  {f \in [Slots -> FreeFds \cup {-1}] :
     /\ \A s \in Slots : f[s] = -1 <=> has[p][s] = -1
     /\ f["source"] # -1 => f["source"] = LeastOf(FreeFds)
     /\ f["sink"] # -1 => f["sink"] = LeastOf(FreeFds \ {f["source"]})}

DupFails(p) == Copies(p) = {} /\ system = "posix"
Dupped == FreeFds    \* what was duplicated when a dup failed: at most one

-------------------------------------------------------------------------------
(***************************************************************************)
(* The constructors.  That of a named pipe forgets the first handle when   *)
(* the second fails.  The copy constructor of async_pipe on POSIX asks its *)
(* own, empty streams for their handles, and assigning -1 to them throws.  *)
(***************************************************************************)
Construct(o) ==
  /\ o \notin alive
  /\ \/ /\ Cardinality(FreeFds) >= 2
        /\ LET r == Min(FreeFds)
               w == Min(FreeFds \ {r})
           IN  Take(o, [s \in Slots |-> IF s = "source" THEN r ELSE w], {r, w}, {})
        /\ alive' = alive \cup {o}
        /\ UNCHANGED <<system, risks>>
     \/ /\ Cardinality(FreeFds) = 1 /\ system = "posix"
        /\ Throws(FreeFds)

Duplicate(o, p) ==
  \/ /\ \E f \in Copies(p) : Take(o, f, NewFds(f), {})
     /\ alive' = alive \cup {o}
     /\ UNCHANGED <<system, risks>>
  \/ /\ DupFails(p) /\ Throws(Dupped)

Copy(o, p) ==
  /\ o \notin alive /\ p \in alive /\ Types[o] = Types[p]
  /\ IsBasic(o) \/ system = "windows"
  /\ Duplicate(o, p)

\* The conversion of an async_pipe to a basic_pipe.
Convert(o, p) ==
  /\ o \notin alive /\ p \in alive /\ IsBasic(o) /\ ~IsBasic(p)
  /\ Duplicate(o, p)

MoveTo(o, p, closing) ==
  /\ has' = [has EXCEPT ![o] = has[p], ![p] = None]
  /\ open' = open \ closing

Move(o, p) ==
  /\ o \notin alive /\ p \in alive /\ Types[o] = Types[p]
  /\ MoveTo(o, p, {})
  /\ alive' = alive \cup {o}
  /\ UNCHANGED <<system, risks>>

\* async_pipe(ios, basic_pipe): both have the descriptors afterwards.  If the
\* second is -1 the stream made of the first closes it when it is destroyed.
Adopt(o, p) ==
  /\ o \notin alive /\ p \in alive /\ ~IsBasic(o) /\ IsBasic(p)
  /\ has[p]["source"] # -1
  /\ Risk({"sharing"})
  /\ \/ /\ has[p]["sink"] # -1
        /\ Take(o, has[p], {}, {}) /\ alive' = alive \cup {o}
     \/ /\ has[p]["sink"] = -1
        /\ open' = open \ Owned(p) /\ UNCHANGED <<alive, has>>
  /\ UNCHANGED system

(***************************************************************************)
(* Assignment, of another object.  basic_pipe overwrites its handles, on   *)
(* Windows after closing them if it is a move; copying on POSIX leaves a   *)
(* handle for which the other has none, and stores each duplicate, or the  *)
(* -1 of the failing dup, before it looks at it.                           *)
(***************************************************************************)
Both(o, p) == {o, p} \subseteq alive /\ o # p /\ Types[o] = Types[p]
Overwrites(o, f) == IF Owned(o) \subseteq NewFds(f) THEN {} ELSE {"overwriting"}

\* Mutant: the handles are not taken from the other.
MoveAssign_Keeps(o, p) ==
  /\ Both(o, p)
  /\ Take(o, has[p], {}, {})
  /\ Risk(Overwrites(o, None))
  /\ UNCHANGED <<system, alive>>

MoveAssign(o, p) ==
  /\ Both(o, p)
  /\ \/ /\ IsBasic(o) /\ system = "posix"
        /\ MoveTo(o, p, {})
        /\ Risk(Overwrites(o, None))
     \/ /\ system = "windows"
        /\ MoveTo(o, p, Owned(o))
        /\ UNCHANGED risks
     \/ /\ ~IsBasic(o) /\ system = "posix"
        /\ has' = [has EXCEPT ![o] = has[p], ![p] = has[o]]
        /\ UNCHANGED <<open, risks>>
  /\ UNCHANGED <<system, alive>>

CopyAssignBasic(o, p) ==
  \/ \E f \in Copies(p) :
       LET g == [s \in Slots |->
                   IF f[s] = -1 /\ system = "posix" THEN has[o][s] ELSE f[s]]
       IN  Take(o, g, NewFds(f), {}) /\ Risk(Overwrites(o, g))
  \/ /\ DupFails(p)
     /\ LET first == CHOOSE s \in Slots : has[p][s] # -1 /\ (s = "sink" => has[p]["source"] = -1)
            f == IF Dupped = {} THEN [has[o] EXCEPT ![first] = -1]
                 ELSE [s \in Slots |-> IF s = "source" THEN Min(FreeFds) ELSE -1]
        IN  Take(o, f, Dupped, {})
     /\ Risk({"exception"})

(***************************************************************************)
(* async_pipe assigns the copies to its streams: assign() throws on a      *)
(* stream that is open, and for -1, and the copies not assigned are lost.  *)
(***************************************************************************)
CopyAssignAsync(o, p) ==
  \/ \E f \in Copies(p) :
       \/ /\ system = "windows"
          /\ Take(o, f, NewFds(f), Owned(o))
          /\ UNCHANGED risks
       \/ /\ system = "posix"
          /\ LET Assigns(s) == has[o][s] = -1 /\ f[s] # -1
                 taken == {s \in Slots : Assigns(s) /\ Assigns("source")}
             IN  /\ Take(o, [s \in Slots |-> IF s \in taken THEN f[s] ELSE has[o][s]],
                         NewFds(f), {})
                 /\ Risk(IF taken = Slots THEN {} ELSE {"exception"})
  \/ /\ DupFails(p)
     /\ Take(o, has[o], Dupped, {})
     /\ Risk({"exception"})

CopyAssign(o, p) ==
  /\ Both(o, p)
  /\ IF IsBasic(o) THEN CopyAssignBasic(o, p) ELSE CopyAssignAsync(o, p)
  /\ UNCHANGED <<system, alive>>

-------------------------------------------------------------------------------
(***************************************************************************)
(* close() and the destructor.  An initializer that takes an end out of a  *)
(* basic_pipe closes it and calls assign_source(-1) or assign_sink(-1).    *)
(* source(ios) and sink(ios) of a moved async_pipe make a stream of the    *)
(* handle, which is destroyed here at once: on Windows assigning           *)
(* INVALID_HANDLE_VALUE to the open stream fails, and it keeps the handle. *)
(***************************************************************************)
Close(o) ==
  /\ o \in alive
  /\ Take(o, None, {}, Owned(o))
  /\ UNCHANGED <<system, alive, risks>>

Destroy(o) ==
  /\ o \in alive
  /\ Take(o, None, {}, Owned(o))
  /\ alive' = alive \ {o}
  /\ UNCHANGED <<system, risks>>

GiveAway(o, s) ==
  /\ o \in alive /\ IsBasic(o) /\ has[o][s] # -1
  /\ Take(o, [has[o] EXCEPT ![s] = -1], {}, {has[o][s]})
  /\ UNCHANGED <<system, alive, risks>>

Release(o, s) ==
  /\ o \in alive /\ ~IsBasic(o) /\ has[o][s] # -1
  /\ \/ /\ system = "posix"
        /\ Take(o, [has[o] EXCEPT ![s] = -1], {}, {has[o][s]})
        /\ UNCHANGED risks
     \/ /\ system = "windows"
        /\ Take(o, has[o], {}, {has[o][s]})
        /\ Risk({"sharing"})
  /\ UNCHANGED <<system, alive>>

\* Nothing is claimed of a program that shared handles, so it ends there.
HandleNext ==
  /\ "sharing" \notin risks
  /\ \E o \in Objects :
       \/ Construct(o) \/ Close(o) \/ Destroy(o)
       \/ \E s \in Slots : GiveAway(o, s) \/ Release(o, s)
       \/ \E p \in Objects : Copy(o, p) \/ Convert(o, p) \/ Move(o, p) \/ Adopt(o, p)
                             \/ MoveAssign(o, p) \/ CopyAssign(o, p)
HandleSpec == HandleInit /\ [][HandleNext]_handleVars

-------------------------------------------------------------------------------
(***************************************************************************)
(* OneOwner: unless the program shared handles between objects, every      *)
(* handle an object has is open and is no other object's (so nothing is    *)
(* closed twice and nobody closes a number that was given out again); and  *)
(* unless it also overwrote the handles of a basic_pipe, or met an         *)
(* exception, every open descriptor has an owner.                          *)
(***************************************************************************)
OneOwner ==
  /\ "sharing" \notin risks =>
       /\ \A o \in Objects : Owned(o) \subseteq open /\ (Owned(o) # {} => o \in alive)
       /\ \A o, p \in Objects : o # p => Owned(o) \cap Owned(p) = {}
       /\ \A o \in Objects : has[o]["source"] = has[o]["sink"] => Owned(o) = {}
  /\ risks = {} => open = UNION {Owned(o) : o \in Objects}

===============================================================================
