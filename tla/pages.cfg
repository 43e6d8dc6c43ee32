SPECIFICATION Spec
CONSTANTS
    Chars <- Alphabet
    Wide <- WideChars
    UINT8_MAX = 15
    OUTPUT_HANDLER_SIZE = 11
    MAX_CONTENT_SIZE = 7
    MAX_TITLE_SIZE = 4
    PRINTABLE_TITLE_SIZE = 3
    PRINTABLE_PAGINATED_TITLE_SIZE = 2
    FORMATTED_AMOUNT_BUFFER_SIZE = 7
    COIN_DENOM_MAXSIZE = 4
    COIN_AMOUNT_MAXSIZE = 4
    DefaultDenom <- Small
    Ticker <- TickerText
    Decimal <- Decimals
    Documents <- Transactions
    Views <- ScreenViews
INVARIANT TypeOK
INVARIANT AcceptedCanBeShown
INVARIANT AmountsShownWhole
INVARIANT AddressShownWhole
INVARIANT ScreensShownWhole
INVARIANT TitlesReadable
INVARIANT ContentsDistinct
CHECK_DEADLOCK FALSE
