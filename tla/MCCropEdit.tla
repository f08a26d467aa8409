------------------------------ MODULE MCCropEdit ------------------------------
EXTENDS CropEdit

\* Two calls that are answered in one message, and an image beside them; and
\* a message of two sections, each of which can be emptied.
TwoCalls == << Assistant(<<Use(<<"call", 1>>, "read")>>), Assistant(<<Use(<<"call", 2>>, "read")>>),
               User(<<Result(<<"call", 1>>, <<1>>, FALSE), Result(<<"call", 2>>, <<2>>, FALSE)>>),
               User(<<Image(<<3>>)>>) >>
Answer == << User(<<Image(<<1>>)>>), Assistant(<<Thinking(<<2>>), Text(<<3>>)>>) >>
\* An id that is used again before it is answered: the editor does not open.
TwoOfOneId == << Assistant(<<Use(<<"call", 1>>, "read"), Use(<<"call", 1>>, "read")>>) >>

Conversations == {TwoCalls, Answer, TwoOfOneId}
===============================================================================
