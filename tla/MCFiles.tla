------------------------------- MODULE MCFiles ------------------------------
(***************************************************************************)
(* Instances for TLC of the writer of a file and of who looks at it        *)
(* meanwhile: a reader that opens it, or the verifier, which may also come *)
(* after a power failure.  Two documents have one size, one is larger.     *)
(***************************************************************************)
EXTENDS VerifyFile

VARIABLE watcher  \* who looks at the file

MCSize == [d \in {"small", "other", "large"} |-> IF d = "large" THEN 6 ELSE 5]

fileVars == <<allVars, watcher>>

FilesInit == VInit /\ watcher \in {"reader", "verifier"}

FilesNext ==
    /\ \/ watcher = "reader" /\ Next /\ UNCHANGED <<disk, verifier, quiet>>
       \/ watcher = "verifier" /\ VNext
    /\ UNCHANGED watcher

\* A call that was made runs on, and a write is not interrupted for ever.
FilesSpec ==
    /\ FilesInit /\ [][FilesNext]_fileVars
    /\ WF_vars(WriterStep) /\ SF_vars(Progress)
    /\ WF_allVars(VerifierStep)

-----------------------------------------------------------------------------
(* A call of finalize_to_file returns, if the system does not interrupt its *)
(* writes for ever, and a verification returns, whatever the writer does at *)
(* the same time.                                                           *)
FilesEnd == FinalizeEnds /\ VerifyEnds
=============================================================================
