-------------------------- MODULE MCCurationAgent --------------------------
(* Two copies of one recording in two sources and a track of its own: the  *)
(* snapshots differ in what a scan, a new file, a fingerprint and a source *)
(* taken out of the sets change.                                           *)
EXTENDS CurationAgent

Copy(src, depth) ==
    [source |-> src, path |-> src, present |-> TRUE, facts |-> 1,
     print |-> [hash |-> "h", facts |-> 1],
     analysis |-> [status |-> "succeeded", facts |-> 1, bpm |-> 128],
     format |-> [facts |-> 1, lossless |-> "yes", depth |-> depth, bitrate |-> Unknown,
                 rate |-> 44],
     words |-> {"w"}, bpm |-> Unknown]

Single == [Copy(1, 16) EXCEPT !.path = 3, !.print = [hash |-> NoHash, facts |-> 0], !.words = {},
                              !.analysis = [status |-> "failed", facts |-> 1, bpm |-> Unknown],
                              !.bpm = 140]

Base == [rows |-> <<Copy(1, 16), Copy(2, 24), Single>>, eligible |-> {1, 2}]

TheLibraries ==
    << Base,
      [Base EXCEPT !.rows[2].facts = 2],
      [Base EXCEPT !.rows[1].format.depth = 32],
      [Base EXCEPT !.rows[2].present = FALSE, !.eligible = {2}] >>

AllTracks == [sources |-> {}, bpm_max |-> Unknown, lossless |-> "any", analysed |-> FALSE,
              query |-> NoWord]
TheFilters == { AllTracks, [AllTracks EXCEPT !.query = "w", !.bpm_max = 130] }
=============================================================================
