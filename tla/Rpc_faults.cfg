CHECK_DEADLOCK FALSE
SPECIFICATION Spec
CONSTANTS
    ping = ping
    move = move
    shutdown = shutdown
    block = block
    file = file
    ok = ok
    refused = refused
    Zero = zero
    Torn = torn
    None = none
    Request = {ping, move, shutdown, block}
    Msg = {ping, move, shutdown, block, file, ok, refused, zero}
    OneWay = {shutdown}
    Streaming = {move}
    Silent = {block}
    Error = {refused}
    Answers <- MCAnswers
    Size <- MCSize
    Header = 2
INVARIANTS TypeOK SuccessIsTheAnswer HungMeansCut
PROPERTIES MessagesAreWhole RequestReturns
