---------------------------- MODULE WeatherCache ----------------------------
(***************************************************************************)
(* services/Weather: the cache of the last answers of the weather server   *)
(* (weather_cache.c), the methods that read it (weather_methods.c) and the *)
(* commands that configure it (weather_cli.c).  A value is abstracted to   *)
(* where it comes from: the second and the settings of its request.        *)
(***************************************************************************)
EXTENDS Integers

CONSTANTS
  WeatherSettings,  \* country code, zip and units
  CacheTimeouts,    \* values of cache-timeout, in seconds
  WeatherClock      \* bound: seconds

ASSUME WeatherAssumption == CacheTimeouts \subseteq Nat /\ WeatherClock \in Nat

VARIABLES
  weatherNow,       \* time(NULL)
  weatherSettings,  \* weather_country_code, weather_zip, weather_temp_units
  weatherTimeout,   \* weather_cache_timeout_sec
  weatherAge,       \* cache_age: the second of the last request, or Never
  weatherAsked,     \* history: the settings of the last request
  weatherCache,     \* for each value, the request it came with, or Nothing
  weatherForecast,  \* the request forecast_hourly and raw_forecast came with, or Nothing
  weatherMissed,    \* history: what the last request did not bring
  weatherRead       \* what the last method read: [field, from], if any

weatherVars == <<weatherNow, weatherSettings, weatherTimeout, weatherAge, weatherAsked,
                 weatherCache, weatherForecast, weatherMissed, weatherRead>>

\* "main" brings temp and humidity, "wind" windspeed, "sys" sunrise and sunset, and
\* "weather" precipitation.
Values == {"temp", "humidity", "windspeed", "sunrise", "sunset", "precipitation"}
Answers ==
  {{}, {"precipitation"}, {"temp", "humidity", "windspeed", "sunrise", "sunset"}, Values}
Nothing == [at |-> -1, by |-> "nothing"]
Never == -1

WeatherInit ==
  /\ weatherNow = 0 /\ weatherSettings \in WeatherSettings /\ weatherTimeout \in CacheTimeouts
  /\ weatherAge = Never /\ weatherAsked = weatherSettings
  /\ weatherCache = [value \in Values |-> Nothing] /\ weatherForecast = Nothing
  /\ weatherMissed = Values /\ weatherRead = {}

-----------------------------------------------------------------------------
Current_Late == weatherAge # Never /\ weatherNow - weatherAge <= weatherTimeout

\* cache_age is 0 at first, and the clock of the system far beyond any timeout.
Current == weatherAge # Never /\ weatherNow - weatherAge < weatherTimeout

This == [at |-> weatherNow, by |-> weatherSettings]

\* weather_cache_parse_response: precipitation is forgotten, the other values are kept
\* unless the answer has them; the answer may be no object at all, and the transfer may
\* fail, in which case nothing is parsed.
ParseResponse(answer) ==
  [value \in Values |-> IF value \in answer THEN This
                        ELSE IF value = "precipitation" THEN Nothing
                        ELSE weatherCache[value]]

\* The second request, for the forecast: its transfer may fail, its answer may be no object
\* (weather_cache_parse_forecast), and otherwise it takes the place of the last one.
Forecasts == {weatherForecast, Nothing, This}

\* weather_cache_refresh with its two requests.
Refresh ==
  IF Current THEN UNCHANGED <<weatherAge, weatherAsked, weatherCache, weatherForecast, weatherMissed>>
  ELSE
    /\ weatherAge' = weatherNow
    /\ weatherAsked' = weatherSettings
    /\ \/ weatherCache' = weatherCache /\ weatherMissed' = Values
       \/ \E answer \in Answers : /\ weatherCache' = ParseResponse(answer)
                                  /\ weatherMissed' = (Values \ {"precipitation"}) \ answer
    /\ weatherForecast' \in Forecasts

\* GetTemp and the other methods, and RefreshCache.
Read(value) ==
  /\ Refresh
  /\ weatherRead' = {[field |-> value, from |-> weatherCache'[value]]}
  /\ UNCHANGED <<weatherNow, weatherSettings, weatherTimeout>>

\* GetForecast: "no data", or the entries or the text of one answer.
ReadForecast ==
  /\ Refresh
  /\ weatherRead' = {[field |-> "forecast", from |-> weatherForecast']}
  /\ UNCHANGED <<weatherNow, weatherSettings, weatherTimeout>>

\* weather_cli_set_location, _metric, _imperial and _cache_timeout: the cache stays.
Configure ==
  /\ \/ weatherSettings' \in WeatherSettings /\ UNCHANGED weatherTimeout
     \/ weatherTimeout' \in CacheTimeouts /\ UNCHANGED weatherSettings
  /\ UNCHANGED <<weatherNow, weatherAge, weatherAsked, weatherCache, weatherForecast,
                 weatherMissed, weatherRead>>

Second ==
  /\ weatherNow < WeatherClock /\ weatherNow' = weatherNow + 1 /\ weatherRead' = {}
  /\ UNCHANGED <<weatherSettings, weatherTimeout, weatherAge, weatherAsked, weatherCache,
                 weatherForecast, weatherMissed>>

WeatherNext ==
  \/ \E value \in Values : Read(value)
  \/ ReadForecast \/ Configure \/ Second

WeatherSpec == WeatherInit /\ [][WeatherNext]_weatherVars

-----------------------------------------------------------------------------
\* A value that is read was asked for less than the timeout ago, or just now, with the
\* settings of the last request, unless that request failed or its answer did not bring the
\* value.  Precipitation is never left over from an answer before the last: it is "no data".
WeatherCurrent ==
  [][\A read \in weatherRead' \ weatherRead :
       \/ read.field \in weatherMissed' \cup {"forecast"}
       \/ read.from = Nothing /\ read.field = "precipitation"
       \/ /\ read.from.by = weatherAsked'
          /\ read.from.at = weatherNow \/ weatherNow - read.from.at < weatherTimeout]_weatherVars
=============================================================================
