------------------------- MODULE FrameStateDetector -------------------------
(***************************************************************************)
(* FrameStateDetector (api/src/frame_state_detector.cpp): the C++ object    *)
(* that embeds a Python interpreter and hands each page to analyst() of     *)
(* main/det_line.py.  What matters of a page is how analyst takes it:       *)
(*   "bad"      empty, or without three channels,                           *)
(*   "sliver"   resize_image raises (see DetectLine),                       *)
(*   "blank"    no line of text is found,                                   *)
(*   "faint"    text is found, but no pixel is dark enough for det_layout,  *)
(*   "text"     text and strokes.                                           *)
(* The interpreter keeps a raised exception until somebody clears it.       *)
(***************************************************************************)
EXTENDS Integers, Sequences

CONSTANT MAX_PAGES   \* bound on the pages of a behaviour

VARIABLES
    phase,      \* "new", "ready" (analyst is found) or "gone"
    exception,  \* the interpreter has a pending exception
    page,       \* the page of the last call
    status,     \* what the last call returned
    report,     \* the six fields of the report: the number of the page each is of
    pages       \* the number of calls

vars == <<phase, exception, page, status, report, pages>>

Pages == {"bad", "sliver", "blank", "faint", "text"}

\* The constructor.
Create ==
    /\ phase = "new"
    /\ phase' = "ready"
    /\ exception' = FALSE
    /\ UNCHANGED <<page, status, report, pages>>

\* CPython: a function that returns a value while an exception is pending is
\* taken for broken and raises SystemError, so np.array, which detect_line
\* calls first, raises whatever the page is.
Raises(p) == exception \/ p = "sliver"

\* The types of the tuple that analyst returns.  Without strokes overall_box is
\* made of floats, and so is its difference to the base of the text.
Returned(p) ==
    <<"float", "float", "float", IF p = "faint" THEN "float" ELSE "int", "bool", "int">>

\* The formats "f|f|f|i|b|i": i and b refuse a float.
Parses(format, type) == format = "f" \/ type # "float"

Formats == <<"f", "f", "f", "i", "b", "i">>

\* PyArg_ParseTuple stores the values up to the first that it cannot convert.
Parsed(p) == {n \in 1..6 : \A k \in 1..n : Parses(Formats[k], Returned(p)[k])}

\* detection(): a page that is refused, one that analyst raises for, and one
\* that it returns a tuple for.  Nobody clears the exception, and nobody looks
\* at the result of PyArg_ParseTuple.
Detection(p) ==
    /\ phase = "ready"
    /\ pages < MAX_PAGES
    /\ pages' = pages + 1
    /\ page' = p
    /\ \/ /\ p = "bad"
          /\ status' = -1
          /\ UNCHANGED <<exception, report>>
       \/ /\ p # "bad"
          /\ Raises(p)
          /\ status' = -2
          /\ exception' = TRUE
          /\ UNCHANGED report
       \/ /\ p # "bad"
          /\ ~Raises(p)
          /\ status' = 0
          /\ report' = [n \in 1..6 |-> IF n \in Parsed(p) THEN pages' ELSE report[n]]
          /\ exception' = (Parsed(p) # 1..6)
    /\ UNCHANGED phase

\* The destructor; Py_Finalize drops the exception with the interpreter.
Destroy ==
    /\ phase = "ready"
    /\ phase' = "gone"
    /\ exception' = FALSE
    /\ UNCHANGED <<page, status, report, pages>>

Init ==
    /\ phase = "new"
    /\ exception = FALSE
    /\ page = "bad"
    /\ status = -1
    /\ report = [n \in 1..6 |-> 0]
    /\ pages = 0

Next == Create \/ Destroy \/ \E p \in Pages : Detection(p)

Spec == Init /\ [][Next]_vars

-----------------------------------------------------------------------------

\* The header's "@retval -2": the model failed on this page.
FailureIsOfThisPage == status = -2 => page = "sliver"
=============================================================================
