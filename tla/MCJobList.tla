------------------------------ MODULE MCJobList ------------------------------
(* The job lists that TLC lets the loads bring: a job and a matrix of two,  *)
(* the same after a retry of the first of the matrix, one of the matrix     *)
(* alone, and a list without groups.                                        *)
EXTENDS JobList

J(id, name, base, stage, status, started) ==
    [id |-> id, name |-> name, base |-> base, stage |-> stage,
     status |-> status, started |-> started]

Build == J(1, 3, 1, 1, "running", 2)
TestA == J(2, 1, 2, 2, "failed", 1)
TestB == J(3, 2, 2, 2, "running", 3)
Built == [Build EXCEPT !.status = "success"]
Retried == J(4, 1, 2, 2, "pending", 0)
Failed == [TestB EXCEPT !.status = "failed"]

MCLists == {<<TestB, TestA, Build>>, <<Retried, Failed, Built>>, <<Failed, Built>>, <<>>}
MCTokens == {{}, {"failed"}}
=============================================================================
