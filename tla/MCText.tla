------------------------------- MODULE MCText -------------------------------
EXTENDS Text

CommentTexts == {<<>>, <<Quote, "a">>, <<"a", Newline, Keyword>>, <<"*", "a">>,
                 <<Quote>> \o Block(<<Quote, "*">>) \o <<"(">>}

=============================================================================
