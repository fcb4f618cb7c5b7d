--------------------------- MODULE BackendChoice ---------------------------
(***************************************************************************)
(* load_sampling_backend of src/specdecode/backends.py and the search and  *)
(* loading of the native library behind it (native.py).  The arguments,    *)
(* the two variables of the environment and the files are chosen at the    *)
(* start and do not change while the process looks.                        *)
(***************************************************************************)
EXTENDS Integers, Sequences

CONSTANTS Modes,      \* what may be given for a mode, valid or not
          Paths,      \* what may be given for a path: "none" (None, or a
                      \* variable that is not set), "empty" or "file"
          Conditions  \* what may be found at a place

ValidModes == {"auto", "python", "native"}
Places == {"argument", "variable", "packaged", "built", "system"}

ChoiceAssumption ==
  /\ Modes \subseteq ValidModes \cup {"invalid"}
  /\ Paths \subseteq {"none", "empty", "file"}
  /\ Conditions \subseteq {"absent", "unloadable", "incompatible", "good"}

VARIABLES mode,          \* the argument
          modeVariable,  \* SPECDECODE_SAMPLING_BACKEND; "none" if unset or empty
          path,          \* the argument library_path
          pathVariable,  \* SPECDECODE_NATIVE_LIBRARY
          library,       \* what there is at each place
          step,          \* "mode", "resolve", "load" or "end"
          chosen,        \* the mode in force
          place,         \* where the library was found
          outcome        \* "python", "native" or "error"; "none" before the end

given == <<mode, modeVariable, path, pathVariable, library>>
vars == <<given, step, chosen, place, outcome>>

Init == /\ mode \in Modes
        /\ modeVariable \in Modes \cup {"none"}
        /\ path \in Paths
        /\ pathVariable \in Paths
        /\ library \in [Places -> Conditions]
        /\ step = "mode"
        /\ chosen = mode
        /\ place = "none"
        /\ outcome = "none"

End(result) == step' = "end" /\ outcome' = result

\* Mutant of Consulted: an explicit path does not keep the variable out.
ConsultedAlways == mode = "auto" /\ modeVariable # "none"

\* The variable counts only where the caller left the choice open.
Consulted == mode = "auto" /\ path = "none" /\ modeVariable # "none"

SelectMode ==
  /\ step = "mode"
  /\ chosen' = IF Consulted THEN modeVariable ELSE mode
  /\ \/ chosen' = "python" /\ End("python")
     \/ chosen' \in {"auto", "native"} /\ step' = "resolve" /\ UNCHANGED outcome
     \/ chosen' \notin ValidModes /\ End("error")
  /\ UNCHANGED <<given, place>>

\* Mutant of Explicit: the mode decides alone whether to fall back.
ExplicitNever == FALSE

Explicit == path # "none" \/ pathVariable = "file"

\* Only NativeLibraryNotFound is caught, to fall back.
NotFound == End(IF chosen = "native" \/ Explicit THEN "error" ELSE "python")

\* Mutant of Candidates: the places that are searched end with the first.
CandidatesFew ==
  IF path = "file" THEN <<"argument">>
  ELSE IF pathVariable = "none" THEN <<"packaged">> ELSE <<"variable">>

\* _resolve_library_path: an empty argument gives way to the variable; an empty
\* variable is a path like any other, and that of no file.
Candidates ==
  CASE path = "file" -> <<"argument">>
    [] path # "file" /\ pathVariable = "file" -> <<"variable">>
    [] path # "file" /\ pathVariable = "empty" -> <<>>
    [] OTHER -> <<"packaged", "built", "system">>

\* The candidates at which there is a file, and the first of them.
Found == {i \in DOMAIN Candidates : library[Candidates[i]] # "absent"}
First == Candidates[CHOOSE i \in Found : \A j \in Found : i <= j]

Resolve ==
  /\ step = "resolve"
  /\ \/ Found = {} /\ NotFound /\ UNCHANGED place
     \/ /\ Found # {}
        /\ step' = "load"
        /\ place' = First
        /\ UNCHANGED outcome
  /\ UNCHANGED <<given, chosen>>

\* Mutant of Load: a library of another ABI counts as a missing one.
LoadHidingMismatch ==
  /\ step = "load"
  /\ IF library[place] = "good" THEN End("native") ELSE NotFound
  /\ UNCHANGED <<given, chosen, place>>

\* _NativeLibrary: an OSError of the dynamic loader becomes
\* NativeLibraryNotFound; another ABI raises NativeBackendError.
Load == /\ step = "load"
        /\ \/ library[place] = "good" /\ End("native")
           \/ library[place] = "incompatible" /\ End("error")
           \/ library[place] = "unloadable" /\ NotFound
        /\ UNCHANGED <<given, chosen, place>>

Next == SelectMode \/ Resolve \/ Load

Spec == Init /\ [][Next]_vars
-----------------------------------------------------------------------------
(* Properties.                                                             *)

\* Every variable has its type, and what is loaded is there.
TypeOK == /\ step \in {"mode", "resolve", "load", "end"}
          /\ chosen \in Modes
          /\ place \in Places \cup {"none"}
          /\ outcome \in {"python", "native", "error", "none"}
          /\ step = "load" => library[place] # "absent"

\* docs/native.md, "Backend selection": an explicit path or an ABI mismatch is
\* never turned into a silent change of backend, from whichever of the six
\* inputs it comes.
NeverHidden ==
  step = "end" /\ chosen # "python" /\ outcome = "python" =>
    /\ path = "none" /\ pathVariable # "file"
    /\ place # "none" => library[place] # "incompatible"

\* test_explicit_missing_library_does_not_silently_fallback: a path that the
\* caller gives decides alone, whatever the environment says and whatever
\* other libraries there are.
ArgumentDecides ==
  step = "end" /\ mode \in {"auto", "native"} /\ path = "file" =>
    outcome = IF library["argument"] = "good" THEN "native" ELSE "error"

\* load_sampling_backend, docstring: "``auto`` falls back only when no native
\* library can be found."  Whatever the inputs, a library in one of the searched
\* places keeps automatic selection from Python, with two exceptions: the first
\* one cannot be loaded, or SPECDECODE_NATIVE_LIBRARY is the empty string.
FallsBackOnlyIfUnfound ==
  chosen = "auto" /\ outcome = "python" /\ pathVariable # "empty" =>
    IF place = "none" THEN \A p \in {"packaged", "built", "system"} : library[p] = "absent"
                      ELSE library[place] = "unloadable"

\* docs/native.md, "Backend selection", as far as it is true: however the six
\* inputs and the five places are combined, nothing that was asked for or found
\* is quietly replaced by Python.
NoQuietChange == TypeOK /\ NeverHidden /\ ArgumentDecides /\ FallsBackOnlyIfUnfound
=============================================================================
