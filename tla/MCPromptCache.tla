--------------------------- MODULE MCPromptCache ---------------------------
(* PromptCache with a prompt that uses another, two readers and a writer. *)
EXTENDS PromptCache, TLC

MCReaders == {"r1", "r2"}
MCPrompts == {"agent", "style"}
MCUses == "agent" :> {"style"} @@ "style" :> {}
=============================================================================
