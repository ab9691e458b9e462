-------------------------- MODULE UpdateFileChunk --------------------------
(***************************************************************************)
(* UpdateFileChunk of parser.rs: one "@@" section of an update, as the     *)
(* parser builds it line by line and file_update.rs applies it.            *)
(*                                                                         *)
(* Indices into old_lines and new_lines count from 0, as in the source;    *)
(* line o of old_lines is old_lines[o + 1].                                *)
(***************************************************************************)
LOCAL INSTANCE Naturals
LOCAL INSTANCE Sequences

NewChunk(context) ==
    [change_context |-> context, old_lines |-> <<>>, new_lines |-> <<>>,
     context_line_indices |-> <<>>, is_end_of_file |-> FALSE]

(* Mutant of PushContextLine: the pair counts the new line too. *)
PushContextLineCountedAfter(chunk, line) ==
    [chunk EXCEPT !.old_lines = Append(@, line),
                  !.new_lines = Append(@, line),
                  !.context_line_indices =
                      Append(@, <<Len(chunk.old_lines) + 1, Len(chunk.new_lines) + 1>>)]

(* push_context_line: the line goes to both sides, as one pair of indices. *)
PushContextLine(chunk, line) ==
    [chunk EXCEPT !.old_lines = Append(@, line),
                  !.new_lines = Append(@, line),
                  !.context_line_indices =
                      Append(@, <<Len(chunk.old_lines), Len(chunk.new_lines)>>)]

PushAddedLine(chunk, line) == [chunk EXCEPT !.new_lines = Append(@, line)]

PushRemovedLine(chunk, line) == [chunk EXCEPT !.old_lines = Append(@, line)]

HasLines(chunk) == chunk.old_lines # <<>> \/ chunk.new_lines # <<>>

(***************************************************************************)
(* The context pairs of a chunk advance on both sides, and both sides of a *)
(* pair hold the same line.                                                *)
(***************************************************************************)
ContextPairsInOrder(chunk) ==
    LET pairs == chunk.context_line_indices
    IN  /\ \A k \in DOMAIN pairs :
              /\ pairs[k][1] \in 0..(Len(chunk.old_lines) - 1)
              /\ pairs[k][2] \in 0..(Len(chunk.new_lines) - 1)
              /\ chunk.old_lines[pairs[k][1] + 1] = chunk.new_lines[pairs[k][2] + 1]
        /\ \A j, k \in DOMAIN pairs :
              j < k => pairs[j][1] < pairs[k][1] /\ pairs[j][2] < pairs[k][2]
=============================================================================
