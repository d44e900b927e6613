------------------------------- MODULE Oracle -------------------------------
(***************************************************************************)
(* The binding of a cell to the Messages API (AnthropicModel): from what   *)
(* comes back of a call to the raw completion the cell is judged on.  A    *)
(* call that fails on any of its ways, or takes longer than its limit, is  *)
(* the response Failed.                                                    *)
(***************************************************************************)
EXTENDS Sequences
LOCAL INSTANCE SequencesExt

ContentBlock(type, name, text) == [type |-> type, name |-> name, text |-> text]
Says(text)              == ContentBlock("text", "", text)
Uses(tool, input)       == ContentBlock("tool_use", tool, input)

Response(blocks) == [ok |-> TRUE,  content |-> blocks]
Failed           == [ok |-> FALSE, content |-> <<>>]

(* A confined cell answers by the input of the first call of its own tool    *)
(* that has one, whatever is said beside it; any other by all it says.       *)
extractTerm(content, confined, tool) ==
    LET own(b)  == b.type = "tool_use" /\ b.name = tool /\ b.text # ""
        text(b) == b.type = "text"
        join(said, b) == said \o b.text
    IN  IF ~confined THEN FoldLeft(join, "", SelectSeq(content, text))
        ELSE IF SelectSeq(content, own) = <<>> THEN ""
        ELSE Head(SelectSeq(content, own)).text

AnthropicModel(response, confined, tool) ==
    IF response.ok THEN extractTerm(response.content, confined, tool) ELSE ""
=============================================================================
