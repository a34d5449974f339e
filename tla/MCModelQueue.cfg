CONSTANTS
    Chats = {c1, c2, c3, c4}
    Soc = Soc
    Capacity = 3
SPECIFICATION LiveSpec
INVARIANTS TypeOK OneTurn TicketsBalanced NoLostWakeup
PROPERTIES StrictQueue EveryoneServed
