------------------------- MODULE MCIncrementalScan -------------------------
(***************************************************************************)
(* Instances of IncrementalScan for TLC: two files that may link to each   *)
(* other and name one MCP server, and two extractors that find some of     *)
(* the same links.                                                         *)
(***************************************************************************)
EXTENDS IncrementalScan, TLC

CONSTANTS a, b, mcp, text, tools    \* files, a server, extractors

\* "plain" and "moved" differ in the body, "plain" and "bare" in the front.
MCBody  == [c \in Content |-> IF c = "moved" THEN 2 ELSE 1]
MCFront == [c \in Content |-> IF c = "bare" THEN 2 ELSE 1]

\* One file, a pair that shares the server, and one that does not.
MCFirstDisks ==
    {[f \in {a} |-> "moved"], [f \in {a, b} |-> "plain"],
     [f \in {a, b} |-> IF f = a THEN "plain" ELSE "bare"]}

MCLenses == [e \in Extractor |-> IF e = tools THEN {"x"} ELSE Lens]

To(t, p) == [target |-> t, prose |-> p]

\* "text" reads the body, and annotations when its settings say so; "tools"
\* reads the frontmatter, and finds a mention of b on its own.
TextFinds(c, note, v) ==
    [links |-> (IF c = "moved" THEN {To(a, FALSE)} ELSE {To(b, TRUE)})
                 \cup (IF note = "note" THEN {To(a, TRUE)} ELSE {}),
     urls  |-> IF c = "moved" THEN {} ELSE {"url"},
     nodes |-> {},
     chips |-> IF c = "moved" THEN {} ELSE {v}]

ToolsFinds(c, note, v) ==
    [links |-> (IF c = "bare" THEN {} ELSE {To(mcp, TRUE)})
                 \cup (IF v = "on" THEN {To(b, FALSE)} ELSE {}),
     urls  |-> {},
     nodes |-> IF c = "bare" THEN {} ELSE {mcp},
     chips |-> IF note = "note" THEN {"note"} ELSE {}]

MCEmits ==
    [e \in Extractor |->
        [x \in Content \X Sidecar \X Setting |->
            IF e = tools THEN ToolsFinds(x[1], x[2], x[3])
            ELSE TextFinds(x[1], x[2], x[3])]]
=============================================================================
