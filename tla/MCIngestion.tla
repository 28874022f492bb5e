------------------------------ MODULE MCIngestion ------------------------------
(***************************************************************************)
(* Instances of Ingestion for TLC.                                         *)
(***************************************************************************)
EXTENDS Ingestion

\* Files, batches and stations, the bad ones anywhere.
MCPlain ==
  UNION {{[total |-> n, bad |-> bad, asked |-> asked, sites |-> << >>, told |-> FALSE] :
            bad \in SUBSET (1..n), asked \in {TRUE, n > 0}} : n \in 0..3}

\* With pages of two measurements and two pages at most: a sensor without any,
\* with less than a page, with more than all pages, with those passed over.
Long == << "none", "value", "value", "value", "value" >>
Short == << "value" >>
Bad == << "value", "bad" >>

At(sensors) == [placed |-> TRUE, sensors |-> sensors]
Nowhere == [placed |-> FALSE, sensors |-> << >>]

\* With pages of one location and two pages at most.
MCLocations ==
  {<< >>, << At(<< >>), At(<< Long >>) >>, << At(<< Short, << >>, Short >>) >>,
   << At(<< Short >>), At(<< Short >>), At(<< Short >>) >>, << At(<< Bad >>) >>,
   << At(<< Short >>), Nowhere >>}

MCOpenAQ ==
  {[total |-> 0, bad |-> {}, asked |-> TRUE, sites |-> << a, b >>, told |-> told] :
     a, b \in MCLocations, told \in BOOLEAN}

MCSources == MCPlain \cup MCOpenAQ
=============================================================================
