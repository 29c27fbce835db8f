-------------------------- MODULE MCCatalogStartup --------------------------
(* Two commands on one file; a track with a success before a failure. *)
EXTENDS CatalogStartup

MCTracks == {1, 2}
MCHistory == <<[track |-> 1, ok |-> TRUE], [track |-> 1, ok |-> TRUE],
               [track |-> 1, ok |-> FALSE]>>
MCLegacy == {[id |-> "a", prompt |-> "text", status |-> "validated"],
             [id |-> "b", prompt |-> Blank, status |-> "draft"]}

Source(s, root) == [id |-> s, root |-> root]
File(sources) == [exports |-> <<"work", "exports">>, sources |-> sources]
MCDatabase == <<"work", "catalog">>
MCConfigs ==
    {File(<<Source("x", <<"music">>)>>), File(<<Source("y", <<"work", "records">>)>>),
     File(<<Source("x", <<"music">>), Source("x", <<"other">>)>>),
     File(<<Source("y", <<"work">>)>>), File(<<Source(Blank, <<"music">>)>>),
     [File(<<Source("z", <<"work">>)>>) EXCEPT !.exports = <<"music">>]}
=============================================================================
