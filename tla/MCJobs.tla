------------------------------- MODULE MCJobs -------------------------------
EXTENDS Jobs, TLC

Plain == [parallelism |-> 1, datum_tries |-> 2, pod_failures |-> Unset,
          job_timeout |-> 1000]

Once == [Plain EXCEPT !.datum_tries = Unset]

\* Every width of the pool, every policy, and the edges of the rest.  Only jobs
\* with two tries have reruns.
EdgeSpecs ==
    {Plain, [Plain EXCEPT !.job_timeout = 0]}
    \cup {[Once EXCEPT !.parallelism = n] : n \in 0..U32Max}
    \cup {[Once EXCEPT !.pod_failures = n] : n \in 0..U32Max}
    \cup {[Plain EXCEPT !.datum_tries = n] : n \in {0, I32Max + 1}}

TimeoutSpecs == {[Plain EXCEPT !.job_timeout = t] : t \in {0, 500, 1500}}

Symmetry == Permutations(Work)
=============================================================================
