---------------------------- MODULE MCDocuments ----------------------------
(***************************************************************************)
(* Small documents: outputs of characters of several widths, whose end is  *)
(* not their beginning; texts with brackets, quotes and fences where they  *)
(* may mislead.                                                            *)
(***************************************************************************)
EXTENDS Documents

MCTexts == {<<>>, <<1, 3>>, <<1, 4, 1>>}

MCLedger == {[open |-> o, cmds |-> c] : o \in BOOLEAN, c \in {0, 2}}
MCStored == {[size |-> 1, from |-> 1, truncated |-> TRUE],
             [size |-> 2, from |-> 1, truncated |-> TRUE],
             [size |-> 2, from |-> 0, truncated |-> TRUE]}

MCPreference == <<"ack", "plan", "answer">>
MCExpected == {{}, {"ack"}, {"plan", "answer"}}
MCDetails == {[listed |-> l, entries |-> e] : l \in BOOLEAN, e \in {<<>>, <<2, 4>>}}
MCDigests == ("ack" :> 1) @@ ("plan" :> 3) @@ ("answer" :> 2)
MCContents == ("ack" :> 1) @@ ("plan" :> 2) @@ ("answer" :> 2)

MCProse == {<<"word">>, <<"quote">>, <<"}">>, <<"backslash", "quote">>}
MCBraces == {<<"{", "word", "}">>, <<"[", "{", "word", "}", "]">>}

Message(id, conversation) == [object |-> TRUE, id |-> id, conversation |-> conversation]
Scalar == [object |-> FALSE, id |-> FALSE, conversation |-> FALSE]

\* A bracket and an escaped quote in a string, a list of envelopes, a list with something else,
\* an empty one.
MCParsed ==
  (<<"{", "quote", "}", "word", "quote", "}">> :> <<Message(TRUE, FALSE)>>)
  @@ (<<"{", "quote", "backslash", "quote", "]", "quote", "}">> :> <<Message(FALSE, TRUE)>>)
  @@ (<<"[", "{", "}", "{", "}", "]">> :> <<Message(TRUE, TRUE), Message(FALSE, TRUE)>>)
  @@ (<<"[", "{", "}", "word", "]">> :> <<Message(TRUE, TRUE), Scalar>>)
  @@ (<<"[", "]">> :> <<>>)

\* A string with a block of code in Markdown.
MCFencedBody ==
  (<<"{", "quote", "word", "fence", "word", "fence", "quote", "}">> :> <<Message(TRUE, TRUE)>>)

=============================================================================
