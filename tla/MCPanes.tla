------------------------------ MODULE MCPanes ------------------------------
EXTENDS Panes
\* A run whose supervisor and runner are both killed ends by its deadline.
AllScenes ==
  {{"supervisor", "runner", "helpers", "late"}, {"runner", "silent", "unsealed", "late"},
   {"native", "supervisor", "silent", "unsealed", "late"}, {"native", "runner", "unsealed", "helpers"},
   {"dialog", "native", "late"}, {"dialog", "supervisor"},
   {"cursor", "native", "helpers", "supervisor"}, {"rewrite", "supervisor", "helpers"},
   {"rewrite", "native", "unsealed", "supervisor"}, {"cancel", "helpers"}, {"cancel", "keep", "supervisor"},
   {"cancel", "late", "keep", "native", "supervisor"}, {"pane", "supervisor", "late"}, {"pane", "runner", "silent"},
   {"herdr", "helpers"}, {"herdr", "supervisor"}, {"early", "supervisor", "runner", "late"}}

Menu(kind, says, options) == {Screen(kind, says, options, at) : at \in DOMAIN options}
AllDialogs ==
  Menu("claude trust", {"claude trust", "own folder"}, <<"yes", "no">>)
  \cup {Screen("claude trust", {"claude trust", "own folder", "unnumbered"}, <<"no", "yes">>, at) : at \in 1..2}
  \cup Menu("menu trust", {"claude trust"}, <<"yes", "no">>)
  \cup Menu("menu trust", {"menu trust", "own folder"}, <<"yes", "remember", "no">>)
  \cup Menu("menu trust", {"menu trust"}, <<"yes", "no">>)
  \cup {Screen("box", {"cursor trust", "own box"}, <<>>, 0), Screen("box", {"cursor trust"}, <<>>, 0)}
  \cup {Screen("updated", {"updated"}, <<>>, 0), Screen("notice", {"notice"}, <<>>, 0)}
  \cup Menu("offer", {"offer", "notice"}, <<"update", "skip">>)
  \cup Menu("gate", {"gate"}, <<"no", "yes">>)
  \cup {Screen("menu", {}, <<"other", "other">>, 1), Screen("block", {}, <<>>, 0)}
Foreign == Screen("menu trust", {"menu trust"}, <<"yes", "no">>, 1)
Box == Screen("box", {"cursor trust", "own box"}, <<>>, 0)
Offer == Screen("offer", {"offer", "notice"}, <<"update", "skip">>, 1)
AllCourses == {<<>>} \cup {<<d>> : d \in AllDialogs} \cup {<<Box, Foreign>>, <<Offer, Foreign>>, <<Foreign, Offer>>, <<Box, Offer>>, <<Offer, Offer>>}
AllOutputs == {Screen("work", {}, <<>>, 0), Screen("work", {"offer"}, <<"update", "skip">>, 1)}
=============================================================================
